---- MODULE Spec2Model ----
(***************************************************************************)
(* Model of the mining control loop of twitch-miner-cli: the Scheduler     *)
(* (src/app: App, tick, try_autostart, check_priority_switch,              *)
(* handle_worker_event, stop_watching) and the per-watch Mining Loop       *)
(* (src/watcher.rs: mine_loop), which talk through an unbounded mpsc       *)
(* channel whose receiving end the Scheduler owns.                         *)
(***************************************************************************)
EXTENDS Integers, Sequences, FiniteSets, TLC

VARIABLES
    state,                  \* App.state (AppState)
    watcher_rx,             \* App.watcher_rx: <<>> or <<id of the loop whose receiver is held>>
    mining_status,          \* App.mining_status: <<>> or <<MiningStatus>>
    current_attempt_game,   \* App.current_attempt_game: <<>> or <<game>>
    has_live_stream,        \* App.has_live_stream
    transient_error_count,  \* App.transient_error_count
    failed_game_attempts,   \* App.failed_game_attempts: game -> <<>> or <<Instant>>
    watching_channel,       \* App.watching_channel: <<>> or <<login>>
    priority_games,         \* App.config.priority_games
    drops_subscribed_selected, \* App.drops_subscribed_selected, the cursor of the subscribed list
    excluded_games,         \* App.config.excluded_games
    all_campaigns,          \* App.all_campaigns
    campaigns,              \* App.campaigns
    events,                 \* the local Vec `events` of App::tick, drained and not yet handled
    channel,                \* the mpsc queue behind watcher_rx
    loops,                  \* the spawned mine_loop tasks, by id
    now,                    \* the clock (seconds), read by Instant::now and Utc::now
    last_op,                \* the operation performed by the last step, with its inputs
    auth,                   \* App.auth: <<>> or <<the session (AuthState)>>
    gql,                    \* App.gql: <<>> or <<GqlClient>>
    login_code,             \* App.login_code: <<>> or <<user code>>
    login_rx,               \* the mpsc queue of LoginMessage behind login_rx (main.rs:79)
    login_tasks,            \* the spawned device-code login tasks that have not returned
    auth_json               \* the stored session, auth.json: <<>> or <<session>>

vars == <<state, watcher_rx, mining_status, current_attempt_game, has_live_stream,
          transient_error_count, failed_game_attempts, watching_channel, priority_games, drops_subscribed_selected,
          excluded_games, all_campaigns, campaigns, events, channel, loops, now, last_op,
          auth, gql, login_code, login_rx, login_tasks, auth_json>>

\* the login flow and the stored session
login_flow_vars == <<auth, login_code, login_rx, login_tasks, auth_json>>

\* the same with the platform client
login_vars == <<login_flow_vars, gql>>

app_vars == <<state, watcher_rx, mining_status, current_attempt_game, has_live_stream,
              transient_error_count, failed_game_attempts, watching_channel,
              priority_games, drops_subscribed_selected, excluded_games, all_campaigns, campaigns, events>>

-----------------------------------------------------------------------------
(* Bounds of the model.                                                    *)

MaxLoops == 2
MaxQueue == 2
MaxStoppedIters == 2
MaxLoopFailures == 2
MaxTime == 300
TimeStep == 150
MaxBumpRun == 1
MaxWithheld == 6
MaxLoginTasks == 2
MaxPolls == 3
MaxLoginQueue == 2

(* Program constants.                                                      *)

COOLDOWN_SECS == 300
TRANSIENT_LIMIT == 10
TOKEN_ATTEMPTS == 3
PROBE_ATTEMPTS == 5
FAILURE_REPORT_AT == 5
MAX_EXTRA_MINUTES == 15
SECONDS_PER_MINUTE == 60

Games == {"G1", "G2", "G3"}
ACTIVE_DROP == "Active Drop"

None == <<>>
Some(x) == <<x>>
IsSome(o) == Len(o) > 0
Unwrap(o) == o[1]

LoopIds == 1 .. MaxLoops

-----------------------------------------------------------------------------
(* Inventory model: src/models/inventory.rs                                *)

\* TimedDrop::current_minutes, in seconds (the code's f64 minutes times 60)
current_seconds(d) ==
    LET base == IF IsSome(d.self_info) THEN Unwrap(d.self_info).current_minutes_watched ELSE 0
    IN  base * 60 + d.extra_minutes * 60 + d.extra_seconds

\* TimedDrop::progress() < 1.0
progress_lt_1(d) ==
    IF d.required_minutes = 0 THEN FALSE
    ELSE current_seconds(d) < d.required_minutes * 60

\* TimedDrop::is_claimed
is_claimed(d) ==
    LET explicitly_claimed == IF IsSome(d.self_info) THEN Unwrap(d.self_info).is_claimed ELSE FALSE
        at_full_progress == d.required_minutes > 0
                            /\ current_seconds(d) >= d.required_minutes * 60
    IN  explicitly_claimed \/ at_full_progress

\* DropsCampaign::is_active
is_active(c, t) == c.starts_at <= t /\ t <= c.ends_at /\ c.status = "ACTIVE"

\* DropsCampaign::campaign_progress() < 1.0
campaign_progress_lt_1(c) ==
    IF Len(c.time_based_drops) = 0 THEN TRUE
    ELSE \E i \in 1 .. Len(c.time_based_drops) : progress_lt_1(c.time_based_drops[i])

\* a fraction <<numerator, denominator>> (the code computes in f64), its sum
\* and its equality
frac_add(x, y) == <<x[1] * y[2] + y[1] * x[2], x[2] * y[2]>>
frac_eq(x, y) == x[1] * y[2] = y[1] * x[2]

\* TimedDrop::progress, inventory.rs:172-177
progress(d) ==
    IF d.required_minutes = 0 THEN <<1, 1>>
    ELSE IF current_seconds(d) < d.required_minutes * 60
         THEN <<current_seconds(d), d.required_minutes * 60>>
         ELSE <<1, 1>>

\* the sum of campaign_progress, inventory.rs:94
RECURSIVE total_progress(_)
total_progress(ds) ==
    IF ds = <<>> THEN <<0, 1>>
    ELSE frac_add(progress(Head(ds)), total_progress(Tail(ds)))

\* DropsCampaign::campaign_progress, inventory.rs:89-97
campaign_progress(c) ==
    IF Len(c.time_based_drops) = 0 THEN <<0, 1>>
    ELSE LET t == total_progress(c.time_based_drops)
         IN  <<t[1], t[2] * Len(c.time_based_drops)>>

\* DropsCampaign::first_unclaimed_drop().is_some()
has_first_unclaimed_drop(c) ==
    \E i \in 1 .. Len(c.time_based_drops) : ~is_claimed(c.time_based_drops[i])

\* TimedDrop::bump_extra_minute
bump_extra_minute(d) ==
    IF d.extra_minutes < MAX_EXTRA_MINUTES
    THEN [d EXCEPT !.extra_minutes = d.extra_minutes + 1]
    ELSE d

\* a second counter that keeps counting at the cap
bump_extra_second_uncapped(d) ==
    IF d.extra_seconds + 1 >= SECONDS_PER_MINUTE
    THEN [d EXCEPT !.extra_minutes = d.extra_minutes + 1, !.extra_seconds = 0]
    ELSE [d EXCEPT !.extra_seconds = d.extra_seconds + 1]

\* TimedDrop::bump_extra_second
bump_extra_second(d) ==
    IF d.extra_minutes < MAX_EXTRA_MINUTES
    THEN IF d.extra_seconds + 1 >= SECONDS_PER_MINUTE
         THEN [d EXCEPT !.extra_minutes = d.extra_minutes + 1, !.extra_seconds = 0]
         ELSE [d EXCEPT !.extra_seconds = d.extra_seconds + 1]
    ELSE d

-----------------------------------------------------------------------------
(* Events: src/watcher.rs WatcherEvent, MiningStatus                        *)

MkStatus(g, name, cur, req) ==
    [type |-> "Status", game_name |-> g, name |-> name,
     minutes_watched |-> cur, minutes_required |-> req]
\* the other events; game_name is the game of the emitting loop and name the
\* drop of a Claimed event (the message of an error event is not modelled)
MkEvent(t, g, name) ==
    [type |-> t, game_name |-> g, name |-> name, minutes_watched |-> 0, minutes_required |-> 0]

-----------------------------------------------------------------------------
(* Responses of the platform, as the Mining Loop reads them.               *)

\* PlaybackAccessToken: request error (or no streamPlaybackAccessToken object),
\* or an object carrying value and/or signature
TokenResponses == {"err", "value_only", "sig_only", "both"}

\* DropCurrentSessionContext. shape is the wrapping of the context:
\*   "currentUser"    currentUser.dropCurrentSession
\*   "currentSession" currentSession
\*   "legacyUser"     user.dropCurrentSessionContext
\*   "none"           no context in the data
\* drop_id is the drop node's "id" key and instance_id the self node's
\* "dropInstanceID" key: "absent", "null" (present, not a string) or a string.
ProbeR(ok, shape, req, cur, claimed, name, drop_id, instance_id) ==
    [ok |-> ok, shape |-> shape, required |-> req, current |-> cur, is_claimed |-> claimed,
     name |-> name, drop_id |-> drop_id, instance_id |-> instance_id]

ProbeErr == ProbeR(FALSE, "none", 0, 0, FALSE, "absent", "absent", "absent")
ProbeNoContext == ProbeR(TRUE, "none", 0, 0, FALSE, "absent", "absent", "absent")

\* a drop in progress, a drop ready to be claimed, a drop already claimed, and
\* the next drop of the campaign, not yet started
InProgress(shape) == ProbeR(TRUE, shape, 2, 1, FALSE, "d1", "id1", "absent")
Ready(drop_id, instance_id) == ProbeR(TRUE, "currentUser", 2, 2, FALSE, "d1", drop_id, instance_id)
AlreadyClaimed == ProbeR(TRUE, "currentUser", 2, 2, TRUE, "d1", "id1", "i1")
NextAlreadyClaimed == ProbeR(TRUE, "currentUser", 2, 2, TRUE, "d2", "id2", "i2")
NextDrop(shape) == ProbeR(TRUE, shape, 2, 0, FALSE, "d2", "id2", "absent")

\* the answers to the drop check of the retry loop
ProbeResponses ==
    {ProbeErr, ProbeNoContext,
     \* a context without drop data: not a valid probe
     ProbeR(TRUE, "currentUser", 0, 0, FALSE, "absent", "absent", "absent"),
     InProgress("currentUser"), InProgress("legacyUser"),
     \* ready, with a drop instance id, with the drop id only, with neither
     Ready("id1", "i1"), Ready("id1", "absent"), Ready("absent", "null"),
     AlreadyClaimed, NextAlreadyClaimed}

\* the answers to the follow-up check made after a claim
FollowupResponses ==
    {ProbeErr, ProbeNoContext, AlreadyClaimed,
     NextDrop("currentUser"), NextDrop("currentSession"), NextDrop("legacyUser")}

\* has_context, watcher.rs:379-391
has_context(r) == r.ok /\ r.shape \in {"currentUser", "currentSession", "legacyUser"}

\* required > 0 || id_check, watcher.rs:413-423
probe_valid(r) ==
    LET id_check == r.drop_id # "absent" \/ r.instance_id # "absent"
    IN  has_context(r) /\ (r.required > 0 \/ id_check)

\* the drop name with its fallback, watcher.rs:425-444
probe_name(r) == IF r.name = "absent" THEN ACTIVE_DROP ELSE r.name

\* self_node.get("dropInstanceID").or_else(|| drop_node.get("id")).and_then(as_str),
\* watcher.rs:511-514
probe_instance_id(r) ==
    LET v == IF r.instance_id # "absent" THEN r.instance_id ELSE r.drop_id
    IN  IF v \in {"absent", "null"} THEN None ELSE Some(v)

\* has_next_unclaimed of the follow-up probe, watcher.rs:545-573: the context is
\* looked up under currentUser.dropCurrentSession or currentSession only
has_next_unclaimed(r) ==
    /\ r.ok
    /\ r.shape \in {"currentUser", "currentSession"}
    /\ ~r.is_claimed
    /\ r.required > 0

-----------------------------------------------------------------------------
(* The Mining Loop: src/watcher.rs mine_loop                               *)

\* a Scheduler whose one event stream every loop publishes on
connected_to_any(id) == IsSome(watcher_rx)

\* whether the receiver of loop id's channel still exists (tx.send succeeds)
connected(id) == watcher_rx = Some(id)

\* a slot of the task table that holds no task (claimed_sent is the history
\* of the task: the drop names it has published a Claimed event for; gql is
\* the platform client the task was given)
FreeLoop ==
    [pc |-> "free", game_name |-> "", token_val |-> FALSE, sig_val |-> FALSE,
     token_retry |-> 1, retry |-> 1, drop_found_in_cycle |-> FALSE,
     has_mined_once |-> FALSE, consecutive_loop_failures |-> 0,
     last_claimed_drop |-> None, name |-> "", instance_id |-> "",
     completed |-> FALSE, stopped_iters |-> 0, claimed_sent |-> {}, gql |-> <<>>]

\* the locals of mine_loop at its start, watcher.rs:266-285, with the clone
\* of the Scheduler's platform client (watcher_mgmt.rs:44)
NewLoop(g) == [FreeLoop EXCEPT !.pc = "token", !.game_name = g, !.gql = gql]

\* a task that has returned
DoneLoop(l) == [FreeLoop EXCEPT !.pc = "done", !.game_name = l.game_name]

\* a task that has returned right after tx.send(CampaignComplete)
CompletedLoop(id, l) == [DoneLoop(l) EXCEPT !.completed = connected(id)]

running(l) == l.pc \notin {"free", "done"}

\* the end of an iteration: sleep 60 s and start the next one, watcher.rs:695
NextIteration(id, l) ==
    [l EXCEPT !.pc = "token", !.token_retry = 1, !.retry = 1,
              !.drop_found_in_cycle = FALSE, !.name = "", !.instance_id = "",
              !.stopped_iters = IF connected(id) THEN 0 ELSE l.stopped_iters + 1]

\* The outcome of a step is <<loop record, events sent>>.  A failed send makes
\* the loop return (tx.send(..).is_err() => return Ok(())).
Returned(l) == <<DoneLoop(l), <<>>>>

\* tx.send(ev) followed by `rest` when the send succeeded
SendThen(id, l, ev, rest) == IF connected(id) THEN <<rest[1], <<ev>> \o rest[2]>> ELSE Returned(l)

\* a reconciliation that reports every iteration without a drop context
ReconcileReportingAll(id, l) ==
    IF ~l.drop_found_in_cycle
    THEN IF l.has_mined_once
         THEN LET l1 == [l EXCEPT !.consecutive_loop_failures = l.consecutive_loop_failures + 1]
              IN  SendThen(id, l1, [type |-> "TransientError", game_name |-> l.game_name,
                                    name |-> "", minutes_watched |-> 0, minutes_required |-> 0],
                           <<[l1 EXCEPT !.pc = "token", !.token_retry = 1, !.retry = 1], <<>>>>)
         ELSE SendThen(id, l, [type |-> "FatalError", game_name |-> l.game_name,
                               name |-> "", minutes_watched |-> 0, minutes_required |-> 0],
                       <<[l EXCEPT !.pc = "token", !.token_retry = 1, !.retry = 1], <<>>>>)
    ELSE <<[l EXCEPT !.pc = "token", !.token_retry = 1, !.retry = 1,
                     !.drop_found_in_cycle = FALSE, !.has_mined_once = TRUE,
                     !.consecutive_loop_failures = 0], <<>>>>

\* a reconciliation that takes every iteration without a drop context for the
\* failure of a loop that never mined
ReconcileAlwaysFatal(id, l) ==
    IF ~l.drop_found_in_cycle
    THEN SendThen(id, l, MkEvent("FatalError", l.game_name, ""),
                  <<NextIteration(id, l), <<>>>>)
    ELSE <<NextIteration(id, [l EXCEPT !.has_mined_once = TRUE,
                                        !.consecutive_loop_failures = 0]), <<>>>>

\* post-retry reconciliation, watcher.rs:645-682, then the sleep of line 695
Reconcile(id, l) ==
    IF ~l.drop_found_in_cycle
    THEN IF l.has_mined_once
         THEN LET l1 == [l EXCEPT !.consecutive_loop_failures = l.consecutive_loop_failures + 1]
              IN  IF l1.consecutive_loop_failures >= FAILURE_REPORT_AT
                  THEN SendThen(id, l1, MkEvent("TransientError", l.game_name, ""),
                                <<NextIteration(id, l1), <<>>>>)
                  ELSE <<NextIteration(id, l1), <<>>>>
         ELSE SendThen(id, l, MkEvent("FatalError", l.game_name, ""),
                       <<NextIteration(id, l), <<>>>>)
    ELSE <<NextIteration(id, [l EXCEPT !.has_mined_once = TRUE,
                                        !.consecutive_loop_failures = 0]), <<>>>>

\* the next turn of `for retry in 1..=5`, watcher.rs:366 (also reached by `continue`)
NextRetry(id, l) ==
    IF l.retry < PROBE_ATTEMPTS
    THEN <<[l EXCEPT !.pc = "probe", !.retry = l.retry + 1, !.name = "", !.instance_id = ""], <<>>>>
    ELSE Reconcile(id, l)

\* one playback-token request of the retry loop, watcher.rs:288-336, and what
\* follows the last one up to the first probe, watcher.rs:338-372
TokenStep(id, l, resp) ==
    LET tv == l.token_val \/ resp \in {"value_only", "both"}
        sv == l.sig_val \/ resp \in {"sig_only", "both"}
        got == resp \in {"value_only", "sig_only", "both"} /\ tv /\ sv
        l1 == [l EXCEPT !.token_val = tv, !.sig_val = sv]
    IN  IF ~got /\ l.token_retry < TOKEN_ATTEMPTS
        THEN <<[l1 EXCEPT !.token_retry = l.token_retry + 1], <<>>>>
        ELSE IF ~got /\ ~l1.token_val
        THEN SendThen(id, l1, MkEvent("TransientError", l.game_name, ""),
                      <<NextIteration(id, l1), <<>>>>)
        ELSE IF l1.token_val /\ l1.sig_val
        THEN <<[l1 EXCEPT !.pc = "probe", !.token_retry = 1, !.retry = 1,
                          !.drop_found_in_cycle = FALSE], <<>>>>
        ELSE SendThen(id, l1, MkEvent("TransientError", l.game_name, ""),
                      <<NextIteration(id, l1), <<>>>>)

\* the recovery test of the claimed-already branch, watcher.rs:471-472
missed_claim(l, name) == l.has_mined_once /\ l.last_claimed_drop # Some(name)

\* one drop-progress probe of the rapid-retry loop, watcher.rs:374-643
ProbeStep(id, l, r) ==
    IF ~probe_valid(r) THEN NextRetry(id, l)
    ELSE LET name == probe_name(r) IN
    IF r.is_claimed
    THEN LET l2 == [l EXCEPT !.drop_found_in_cycle = TRUE, !.has_mined_once = TRUE]
         IN  IF missed_claim(l, name)
             THEN SendThen(id, l, MkEvent("Claimed", l.game_name, name),
                           Reconcile(id, [l2 EXCEPT !.last_claimed_drop = Some(name),
                                                    !.claimed_sent = @ \cup {name}]))
             ELSE Reconcile(id, l2)
    ELSE LET l2 == [l EXCEPT !.drop_found_in_cycle = TRUE]
             status == MkStatus(l.game_name, name, r.current, r.required)
         IN  IF r.current >= r.required /\ r.required > 0
             THEN IF IsSome(probe_instance_id(r))
                  THEN SendThen(id, l, status,
                                <<[l2 EXCEPT !.pc = "claim", !.name = name,
                                             !.instance_id = Unwrap(probe_instance_id(r))], <<>>>>)
                  ELSE SendThen(id, l, status,
                                <<CompletedLoop(id, l), <<MkEvent("CampaignComplete", l.game_name, "")>>>>)
             ELSE SendThen(id, l, status, Reconcile(id, l2))

\* The probes of one iteration up to the first one that is valid (or to the
\* last of the five): rs holds the answers in order.
RECURSIVE ProbeRound(_, _, _)
ProbeRound(id, l, rs) ==
    LET o == ProbeStep(id, l, Head(rs))
    IN  IF o[1].pc = "probe" /\ Len(rs) > 1 THEN ProbeRound(id, o[1], Tail(rs)) ELSE o

\* The token requests of one iteration, `for token_retry in 1..=3`: the
\* outcomes it can have when each request is answered from T.
RECURSIVE TokenRound(_, _, _)
TokenRound(id, l, T) ==
    UNION { LET o == TokenStep(id, l, resp)
            IN  IF o[1].pc = "token" /\ o[1].token_retry > 1
                THEN TokenRound(id, o[1], T) ELSE {o} : resp \in T }

\* the answer to gql.claim_drop(instance_id), watcher.rs:521-609
ClaimStep(id, l, ok) ==
    IF ok
    THEN SendThen(id, l, MkEvent("Claimed", l.game_name, l.name),
                  <<[l EXCEPT !.pc = "followup", !.last_claimed_drop = Some(l.name),
                              !.claimed_sent = @ \cup {l.name}], <<>>>>)
    ELSE Reconcile(id, l)

\* the follow-up probe after a successful claim, watcher.rs:537-600;
\* `let _ = tx.send(CampaignComplete)` ignores a failed send
FollowupStep(id, l, r) ==
    IF has_next_unclaimed(r)
    THEN NextRetry(id, l)
    ELSE <<CompletedLoop(id, l), IF connected(id)
                                 THEN <<MkEvent("CampaignComplete", l.game_name, "")>> ELSE <<>>>>

-----------------------------------------------------------------------------
(* Campaign data held by the Scheduler: src/app/campaigns.rs, src/app/mod.rs *)

Min(S) == CHOOSE i \in S : \A j \in S : i <= j

\* Iterator::position over the indices in S (0 stands for None)
position(S) == IF S = {} THEN 0 ELSE Min(S)

DropSelfInfo(cur, claimed, inst) ==
    [current_minutes_watched |-> cur, is_claimed |-> claimed, drop_instance_id |-> inst]

TimedDrop(name, req, info) ==
    [id |-> name, name |-> name, required_minutes |-> req, self_info |-> info,
     benefit_edges |-> <<>>, extra_minutes |-> 0, extra_seconds |-> 0]

DropsCampaign(g, status, ends, drops) ==
    [id |-> g, game |-> g, status |-> status, starts_at |-> 0, ends_at |-> ends,
     time_based_drops |-> drops]

\* the eligibility test shared by try_autostart and check_priority_switch:
\* an active campaign of the game with progress < 100% and an unclaimed drop,
\* in all_campaigns or in campaigns
eligible_in(cs, g, t) ==
    \E i \in 1 .. Len(cs) :
        /\ cs[i].game = g
        /\ is_active(cs[i], t)
        /\ campaign_progress_lt_1(cs[i])
        /\ has_first_unclaimed_drop(cs[i])

has_unclaimed_drops(all, inv, g, t) == eligible_in(all, g, t) \/ eligible_in(inv, g, t)

\* the drop a Status event is synced into, watcher_mgmt.rs:452-472
status_drop_idx(c, st) ==
    LET ds == c.time_based_drops
        I == 1 .. Len(ds)
        by_name_unclaimed == position({i \in I : ds[i].name = st.name /\ ~is_claimed(ds[i])})
        by_name == position({i \in I : ds[i].name = st.name})
        first_unclaimed == IF st.name = ACTIVE_DROP
                           THEN position({i \in I : ~is_claimed(ds[i])}) ELSE 0
    IN  IF by_name_unclaimed # 0 THEN by_name_unclaimed
        ELSE IF by_name # 0 THEN by_name
        ELSE first_unclaimed

\* a sync that always discards the local extra time
sync_drop_always_reset(d, st) ==
    LET info == IF IsSome(d.self_info)
                THEN [Unwrap(d.self_info) EXCEPT !.current_minutes_watched = st.minutes_watched]
                ELSE DropSelfInfo(st.minutes_watched, FALSE, None)
    IN  [d EXCEPT !.self_info = Some(info), !.extra_minutes = 0, !.extra_seconds = 0]

\* the update of the drop, watcher_mgmt.rs:474-493
sync_drop(d, st) ==
    LET local_seconds == current_seconds(d)
        info == IF IsSome(d.self_info)
                THEN [Unwrap(d.self_info) EXCEPT !.current_minutes_watched = st.minutes_watched]
                ELSE DropSelfInfo(st.minutes_watched, FALSE, None)
        d1 == [d EXCEPT !.self_info = Some(info)]
    IN  IF st.minutes_watched * 60 >= local_seconds
        THEN [d1 EXCEPT !.extra_minutes = 0, !.extra_seconds = 0]
        ELSE d1

\* the sync of a Status event into all_campaigns, watcher_mgmt.rs:450-496:
\* only the first campaign of the game is looked at
sync_status(cs, st) ==
    LET ci == position({i \in 1 .. Len(cs) : cs[i].game = st.game_name})
    IN  IF ci = 0 THEN cs
        ELSE LET di == status_drop_idx(cs[ci], st)
             IN  IF di = 0 THEN cs
                 ELSE [cs EXCEPT ![ci].time_based_drops[di] = sync_drop(@, st)]

\* a marking that flags existing self-infos only
mark_claimed_existing_only(cs, g, name) ==
    [i \in 1 .. Len(cs) |->
        LET ds == cs[i].time_based_drops
            di == position({j \in 1 .. Len(ds) : ds[j].name = name})
        IN  IF cs[i].game # g \/ di = 0 \/ ~IsSome(ds[di].self_info) THEN cs[i]
            ELSE [cs[i] EXCEPT !.time_based_drops[di].self_info =
                      Some([Unwrap(@) EXCEPT !.is_claimed = TRUE])]]

\* mark_drop_claimed on one list, campaigns.rs:168-196: in every campaign of
\* the game, the first drop of that name
mark_claimed_in(cs, g, name) ==
    [i \in 1 .. Len(cs) |->
        LET ds == cs[i].time_based_drops
            di == position({j \in 1 .. Len(ds) : ds[j].name = name})
        IN  IF cs[i].game # g \/ di = 0 THEN cs[i]
            ELSE [cs[i] EXCEPT !.time_based_drops[di].self_info =
                      IF IsSome(@) THEN Some([Unwrap(@) EXCEPT !.is_claimed = TRUE])
                      ELSE Some(DropSelfInfo(ds[di].required_minutes, TRUE, None))]]

\* fetch_subscribed_campaign_details, first part (mod.rs:341-374): the drops
\* of an inventory campaign replace those of the subscribed campaign of the
\* same id, keeping the local extra time of drops of the same id
merge_inventory(all, inv, pg) ==
    [i \in 1 .. Len(all) |->
        LET src == {j \in 1 .. Len(inv) : inv[j].id = all[i].id /\ Len(inv[j].time_based_drops) > 0}
            subscribed == \E k \in 1 .. Len(pg) : pg[k] = all[i].game
        IN  IF ~subscribed \/ src = {} THEN all[i]
            ELSE LET new == inv[CHOOSE j \in src : \A k \in src : k <= j].time_based_drops
                     old == all[i].time_based_drops
                 IN  [all[i] EXCEPT !.time_based_drops =
                        [n \in 1 .. Len(new) |->
                            LET o == position({m \in 1 .. Len(old) : old[m].id = new[n].id})
                            IN  IF o = 0 THEN new[n]
                                ELSE [new[n] EXCEPT !.extra_minutes = old[o].extra_minutes,
                                                    !.extra_seconds = old[o].extra_seconds]]]]

\* fetch_subscribed_campaign_details, second part (mod.rs:382-398): the ids of
\* the subscribed active campaigns that hold no drops
campaigns_needing_fetch(all, pg, t) ==
    {all[i].id : i \in {j \in 1 .. Len(all) :
                          /\ \E k \in 1 .. Len(pg) : pg[k] = all[j].game
                          /\ Len(all[j].time_based_drops) = 0
                          /\ is_active(all[j], t)}}

\* fetch_subscribed_campaign_details, second part (mod.rs:400-472): det[id] is
\* the drop list parsed from the details answer for campaign id (empty when
\* the request fails or carries no drops); it is put into the first campaign
\* of that id
merge_details(all, det) ==
    [i \in 1 .. Len(all) |->
        IF /\ all[i].id \in DOMAIN det
           /\ Len(det[all[i].id]) > 0
           /\ i = position({j \in 1 .. Len(all) : all[j].id = all[i].id})
        THEN [all[i] EXCEPT !.time_based_drops = det[all[i].id]]
        ELSE all[i]]

\* fetch_all_campaigns (mod.rs:286-321): the parsed response replaces the
\* list, keeping the local extra time of drops known by campaign and drop id
carry_over(old_all, resp) ==
    [i \in 1 .. Len(resp) |->
        LET oc == position({j \in 1 .. Len(old_all) : old_all[j].id = resp[i].id})
        IN  IF oc = 0 THEN resp[i]
            ELSE LET old == old_all[oc].time_based_drops
                     new == resp[i].time_based_drops
                 IN  [resp[i] EXCEPT !.time_based_drops =
                        [n \in 1 .. Len(new) |->
                            LET o == position({m \in 1 .. Len(old) : old[m].id = new[n].id})
                            IN  IF o = 0 THEN new[n]
                                ELSE [new[n] EXCEPT !.extra_minutes = old[o].extra_minutes,
                                                    !.extra_seconds = old[o].extra_seconds]]]]

\* What the platform may answer to the campaign and inventory queries
\* (every campaign of these answers carries its drops).
AllCampaignsResponses ==
    { <<DropsCampaign("G1", "ACTIVE", 100000, <<TimedDrop("d1", 2, None)>>),
        DropsCampaign("G3", "EXPIRED", 100000, <<>>)>> }

InventoryResponses ==
    { <<DropsCampaign("G3", "ACTIVE", 100000,
                      <<TimedDrop("d2", 2, Some(DropSelfInfo(1, FALSE, None)))>>)>> }

-----------------------------------------------------------------------------
(* The Scheduler: src/app/watcher_mgmt.rs, src/app/mod.rs, src/main.rs      *)

\* the answer of the directory query for one game: request error, no edges,
\* edges none of which carries broadcaster login, broadcaster id and stream
\* id, or an edge carrying all three
DirectoryResponses == {"err", "empty", "invalid_edge", "valid"}

\* `streams` is a non-empty array, watcher_mgmt.rs:142-149
has_edges(resp) == resp \in {"invalid_edge", "valid"}

\* an edge with login, channel id and stream id, watcher_mgmt.rs:257-285
has_valid_edge(resp) == resp = "valid"

\* fail_time.elapsed() < 300 s, watcher_mgmt.rs:114-118 and 191-200
cooldown_active(fga, g, t) == IsSome(fga[g]) /\ t - Unwrap(fga[g]) < COOLDOWN_SECS

\* failed_game_attempts.retain(..), watcher_mgmt.rs:175-177
retain_recent(fga, t) == [g \in Games |-> IF cooldown_active(fga, g, t) THEN fga[g] ELSE None]

\* the scan of try_autostart, watcher_mgmt.rs:189-295: the first priority game
\* that is off cooldown, eligible and has a valid stream
autostart_target(pg, fga, all, inv, dir, t) ==
    LET found == {i \in 1 .. Len(pg) :
                     /\ ~cooldown_active(fga, pg[i], t)
                     /\ has_valid_edge(dir[pg[i]])
                     /\ has_unclaimed_drops(all, inv, pg[i], t)}
    IN  IF found = {} THEN None ELSE Some(pg[Min(found)])

\* A faulty scan (C5 must not hold of it): the bound of the scan is taken one
\* place too low, so the game placed just before the current one is not checked.
higher_priority_short_scan(pg, fga, all, inv, dir, t, current_game) ==
    LET current_priority == position({i \in 1 .. Len(pg) : pg[i] = current_game})
        max_check == IF current_priority = 0 THEN Len(pg) ELSE current_priority - 2
    IN  \E i \in 1 .. max_check :
            /\ ~cooldown_active(fga, pg[i], t)
            /\ has_edges(dir[pg[i]])
            /\ has_unclaimed_drops(all, inv, pg[i], t)

\* a scan that does not stop at the place of the current game
higher_priority_any_place(pg, fga, all, inv, dir, t, current_game) ==
    \E i \in 1 .. Len(pg) :
        /\ pg[i] # current_game
        /\ ~cooldown_active(fga, pg[i], t)
        /\ has_edges(dir[pg[i]])
        /\ has_unclaimed_drops(all, inv, pg[i], t)

\* the scan of check_priority_switch, watcher_mgmt.rs:99-161: some game placed
\* before the current one is off cooldown, eligible and has streams
higher_priority_available(pg, fga, all, inv, dir, t, current_game) ==
    LET current_priority == position({i \in 1 .. Len(pg) : pg[i] = current_game})
        max_check == IF current_priority = 0 THEN Len(pg) ELSE current_priority - 1
    IN  \E i \in 1 .. max_check :
            /\ ~cooldown_active(fga, pg[i], t)
            /\ has_edges(dir[pg[i]])
            /\ has_unclaimed_drops(all, inv, pg[i], t)

\* FatalError: current_attempt_game.take().or_else(mining_status.game_name),
\* watcher_mgmt.rs:527-530
failed_game(attempt, status) ==
    IF IsSome(attempt) THEN attempt
    ELSE IF IsSome(status) THEN Some(Unwrap(status).game_name) ELSE None

\* A faulty limit test (C11 must not hold of it): the limit is tested with >.
transient_limit_exceeded(count) == count > TRANSIENT_LIMIT

\* transient_error_count >= 10 after the increment, watcher_mgmt.rs:506-508
transient_limit_reached(count) == count >= TRANSIENT_LIMIT

\* A faulty drain (C8 must not hold of it): the batch is built newest first.
DrainNewestFirst(ch) == [i \in 1 .. Len(ch) |-> ch[Len(ch) + 1 - i]]

\* the events drained by one tick, in the order try_recv yields them, mod.rs:515-519
Drain(ch) == ch

\* what last_op records: the scheduler operation that queried the directory,
\* the games for which the answer carried a valid edge, the outcome, the
\* game concerned (check_priority_switch: current_game; try_autostart: the
\* game of the loop it started) and the claim requests it made
Op(op, valid, result, game) ==
    [op |-> op, valid |-> valid, result |-> result, game |-> game, calls |-> <<>>]
Other == Op("other", {}, "", "")

\* the games of the priority list
subscribed(pg) == {pg[i] : i \in 1 .. Len(pg)}

\* the games for which the directory answers dir carry a valid edge
valid_games(pg, dir) == {g \in subscribed(pg) : has_valid_edge(dir[g])}

\* the ids not yet given to a spawned mine_loop task
FreeSlots == {id \in LoopIds : loops[id].pc = "free"}

\* A faulty stop (C9 must not hold of it): mining_status is left as it is.
StopWatchingKeepingStatus ==
    /\ watching_channel' = None
    /\ watcher_rx' = None
    /\ has_live_stream' = FALSE
    /\ UNCHANGED mining_status
    /\ current_attempt_game' = None
    /\ state' = "Idle"
    /\ channel' = <<>>

\* stop_watching, watcher_mgmt.rs:75-83; dropping watcher_rx discards the queue
StopWatching ==
    /\ watching_channel' = None
    /\ watcher_rx' = None
    /\ has_live_stream' = FALSE
    /\ mining_status' = None
    /\ current_attempt_game' = None
    /\ state' = "Idle"
    /\ channel' = <<>>

\* start_watching, watcher_mgmt.rs:28-73, called with watcher_rx empty
StartWatching(g) ==
    LET id == Min(FreeSlots)
    IN  /\ FreeSlots # {}
        /\ watcher_rx' = Some(id)
        /\ channel' = <<>>
        /\ mining_status' = None
        /\ watching_channel' = Some(g)
        /\ loops' = [loops EXCEPT ![id] = NewLoop(g)]
        /\ state' = "Watching"

\* App::is_logged_in
is_logged_in == IsSome(auth)

\* GqlClient::with_client_info, gql.rs:41-70, for a session with that device id
GqlClient(device_id) ==
    [cookies_initialized |-> FALSE, unique_id |-> None, device_id |-> device_id]

\* the client get_current_drop sends its query through, gql.rs:438-443: a
\* new client with the session of client g
current_drop_client(g) == GqlClient(g.device_id)

\* what init_cookies finds: a unique_id in the legacy cookie jar, a unique_id
\* cookie set by the home page, a home page that sets none, or a request error
CookieSources == {"jar", "set_cookie", "no_cookie", "err"}

\* the client g after init_cookies took its unique_id from src
with_unique_id(g, src) ==
    CASE src = "jar" ->
           [cookies_initialized |-> TRUE, unique_id |-> Some("jar_id"), device_id |-> "jar_id"]
      [] src = "set_cookie" ->
           [cookies_initialized |-> TRUE, unique_id |-> Some("web_id"), device_id |-> "web_id"]
      [] OTHER ->
           [cookies_initialized |-> TRUE, unique_id |-> Some(g.device_id), device_id |-> g.device_id]

\* an init_cookies that reports success whatever the home page request did
init_cookies_unchecked(g, src) ==
    IF g.cookies_initialized THEN [ok |-> TRUE, gql |-> g, request |-> FALSE]
    ELSE IF src = "err" THEN [ok |-> TRUE, gql |-> g, request |-> TRUE]
    ELSE [ok |-> TRUE, gql |-> with_unique_id(g, src), request |-> src # "jar"]

\* init_cookies, gql.rs:184-261, on client g: whether it returned Ok, the
\* client afterwards, and whether it sent a request
init_cookies(g, src) ==
    IF g.cookies_initialized THEN [ok |-> TRUE, gql |-> g, request |-> FALSE]
    ELSE IF src = "err" THEN [ok |-> FALSE, gql |-> g, request |-> TRUE]
    ELSE [ok |-> TRUE, gql |-> with_unique_id(g, src), request |-> src # "jar"]

\* a user whose stored session was loaded at start-up (main.rs:50-53,
\* App::new, mod.rs:123-132), with platform client g
LoggedIn(g) ==
    /\ auth = Some("old")
    /\ gql = Some(g)
    /\ login_code = None
    /\ login_rx = <<>>
    /\ login_tasks = <<>>
    /\ auth_json = Some("old")

\* The configurations the program is started with (config.json)
Configs ==
    { [priority_games |-> <<>>, excluded_games |-> {}],
      [priority_games |-> <<"G1">>, excluded_games |-> {"G1"}],
      [priority_games |-> <<"G3", "G1", "G2">>, excluded_games |-> {}] }

\* App::init_default (mod.rs:79-115) followed by the start of run_app for a
\* logged-in user (main.rs:70-76)
Init(C) ==
    /\ state = "AllCampaignsFetch"
    /\ watcher_rx = None
    /\ mining_status = None
    /\ current_attempt_game = None
    /\ has_live_stream = FALSE
    /\ transient_error_count = 0
    /\ failed_game_attempts = [g \in Games |-> None]
    /\ watching_channel = None
    /\ \E c \in C : priority_games = c.priority_games /\ excluded_games = c.excluded_games
    /\ drops_subscribed_selected = 0
    /\ all_campaigns = <<>>
    /\ campaigns = <<>>
    /\ events = <<>>
    /\ channel = <<>>
    /\ loops = [id \in LoopIds |-> FreeLoop]
    /\ now = 0
    /\ last_op = Other
    /\ LoggedIn(GqlClient("device"))

\* try_autostart, watcher_mgmt.rs:167-314, as the master tick calls it
\* (main.rs:112-123: only in state Idle); dir is what the directory query
\* answers for each game
TryAutostart(P) ==
    /\ is_logged_in
    /\ UNCHANGED login_vars
    /\ events = <<>>
    /\ state = "Idle"
    /\ UNCHANGED <<transient_error_count, priority_games, drops_subscribed_selected, excluded_games, all_campaigns,
                   campaigns, events, now, has_live_stream>>
    /\ \E dir \in [subscribed(priority_games) -> P.directory] :
       IF IsSome(mining_status) \/ IsSome(watcher_rx)
       THEN /\ UNCHANGED <<state, watcher_rx, mining_status, current_attempt_game,
                           failed_game_attempts, watching_channel, channel, loops>>
            /\ last_op' = Op("try_autostart", valid_games(priority_games, dir),
                             "Already watching", "")
       ELSE LET fga == retain_recent(failed_game_attempts, now)
                target == autostart_target(priority_games, fga, all_campaigns, campaigns, dir, now)
            IN  /\ failed_game_attempts' = fga
                /\ IF IsSome(target)
                   THEN /\ current_attempt_game' = target
                        /\ StartWatching(Unwrap(target))
                        /\ last_op' = Op("try_autostart", valid_games(priority_games, dir),
                                         "Started", Unwrap(target))
                   ELSE /\ UNCHANGED <<state, watcher_rx, mining_status, current_attempt_game,
                                       watching_channel, channel, loops>>
                        /\ last_op' = Op("try_autostart", valid_games(priority_games, dir),
                                         "No suitable streams found", "")

\* check_priority_switch, watcher_mgmt.rs:87-164, as the master tick calls it
\* (main.rs:133-143: only in state Watching)
CheckPrioritySwitch(P) ==
    /\ is_logged_in
    /\ UNCHANGED login_vars
    /\ events = <<>>
    /\ state = "Watching"
    /\ UNCHANGED <<transient_error_count, failed_game_attempts, priority_games, drops_subscribed_selected, excluded_games,
                   all_campaigns, campaigns, events, loops, now>>
    /\ \E dir \in [subscribed(priority_games) -> P.directory] :
       IF ~has_live_stream \/ ~IsSome(mining_status)
       THEN /\ UNCHANGED <<state, watcher_rx, mining_status, current_attempt_game,
                           has_live_stream, watching_channel, channel>>
            /\ last_op' = Op("check_priority_switch", valid_games(priority_games, dir),
                             "not watching", "")
       ELSE IF higher_priority_available(priority_games, failed_game_attempts, all_campaigns,
                                         campaigns, dir, now, Unwrap(mining_status).game_name)
            THEN /\ StopWatching
                 /\ last_op' = Op("check_priority_switch", valid_games(priority_games, dir),
                                  "switched", Unwrap(mining_status).game_name)
            ELSE /\ UNCHANGED <<state, watcher_rx, mining_status, current_attempt_game,
                                has_live_stream, watching_channel, channel>>
                 /\ last_op' = Op("check_priority_switch", valid_games(priority_games, dir),
                                  "kept", Unwrap(mining_status).game_name)

\* App::tick, first half (mod.rs:514-519): everything queued is moved to `events`
TickDrain ==
    /\ UNCHANGED login_vars
    /\ events = <<>>
    /\ IsSome(watcher_rx)
    /\ channel # <<>>
    /\ events' = Drain(channel)
    /\ channel' = <<>>
    /\ last_op' = Other
    /\ UNCHANGED <<state, watcher_rx, mining_status, current_attempt_game, has_live_stream,
                   transient_error_count, failed_game_attempts, watching_channel,
                   priority_games, drops_subscribed_selected, excluded_games, all_campaigns, campaigns, loops, now>>

\* App::tick, second half (mod.rs:521-523): handle_worker_event on the next
\* drained event, watcher_mgmt.rs:445-575
HandleWorkerEvent ==
    /\ UNCHANGED login_vars
    /\ events # <<>>
    /\ LET ev == Head(events) IN
       /\ events' = Tail(events)
       /\ last_op' = Other
       /\ UNCHANGED <<priority_games, drops_subscribed_selected, excluded_games, loops, now>>
       /\ CASE ev.type = "Status" ->
                 /\ all_campaigns' = sync_status(all_campaigns, ev)
                 /\ mining_status' = Some(ev)
                 /\ has_live_stream' = TRUE
                 /\ current_attempt_game' = None
                 /\ transient_error_count' = 0
                 /\ UNCHANGED <<state, watcher_rx, failed_game_attempts, watching_channel,
                                campaigns, channel>>
            [] ev.type = "TransientError" ->
                 /\ UNCHANGED <<failed_game_attempts, all_campaigns, campaigns>>
                 /\ IF transient_limit_reached(transient_error_count + 1)
                    THEN /\ transient_error_count' = 0
                         /\ StopWatching
                    ELSE /\ transient_error_count' = transient_error_count + 1
                         /\ UNCHANGED <<state, watcher_rx, mining_status, current_attempt_game,
                                        has_live_stream, watching_channel, channel>>
            [] ev.type = "FatalError" ->
                 LET game == failed_game(current_attempt_game, mining_status)
                 IN  /\ failed_game_attempts' =
                            IF IsSome(game)
                            THEN [failed_game_attempts EXCEPT ![Unwrap(game)] = Some(now)]
                            ELSE failed_game_attempts
                     /\ transient_error_count' = 0
                     /\ StopWatching
                     /\ UNCHANGED <<all_campaigns, campaigns>>
            [] ev.type = "Claimed" ->
                 LET game_name == IF IsSome(mining_status) THEN Unwrap(mining_status).game_name
                                  ELSE "Unknown Game"
                 IN  /\ all_campaigns' = mark_claimed_in(all_campaigns, game_name, ev.name)
                     /\ campaigns' = mark_claimed_in(campaigns, game_name, ev.name)
                     /\ UNCHANGED <<state, watcher_rx, mining_status, current_attempt_game,
                                    has_live_stream, transient_error_count, failed_game_attempts,
                                    watching_channel, channel>>
            [] ev.type = "CampaignComplete" ->
                 /\ StopWatching
                 /\ UNCHANGED <<transient_error_count, failed_game_attempts, all_campaigns,
                                campaigns>>

\* the game whose drops the 1-second timer advances, watcher_mgmt.rs:324-328
active_game(status, attempt) ==
    IF IsSome(status) THEN Some(Unwrap(status).game_name) ELSE attempt

\* the drop of campaign c that the timer advances: its first unclaimed one
\* (0: none), watcher_mgmt.rs:334-337
bumped_drop(c) == position({j \in 1 .. Len(c.time_based_drops) : ~is_claimed(c.time_based_drops[j])})

\* bump_active_drop_second on one list, watcher_mgmt.rs:332-342 and 345-355
bump_second_in(cs, g) ==
    [i \in 1 .. Len(cs) |->
        IF cs[i].game = g /\ bumped_drop(cs[i]) # 0
        THEN [cs[i] EXCEPT !.time_based_drops[bumped_drop(cs[i])] = bump_extra_second(@)]
        ELSE cs[i]]

\* the seconds counters the model lets the timer advance: those within
\* MaxBumpRun seconds of a full minute
within_bump_run(cs, g) ==
    \A i \in 1 .. Len(cs) :
        cs[i].game = g /\ bumped_drop(cs[i]) # 0 =>
            LET sec == cs[i].time_based_drops[bumped_drop(cs[i])].extra_seconds
            IN  sec < MaxBumpRun \/ sec >= SECONDS_PER_MINUTE - MaxBumpRun

\* the 1-second timer of the master tick, main.rs:127-130:
\* bump_active_drop_second, watcher_mgmt.rs:322-357
BumpSecond ==
    /\ UNCHANGED login_vars
    /\ events = <<>>
    /\ IF IsSome(active_game(mining_status, current_attempt_game))
       THEN LET g == Unwrap(active_game(mining_status, current_attempt_game))
            IN  /\ within_bump_run(all_campaigns, g)
                /\ within_bump_run(campaigns, g)
                /\ all_campaigns' = bump_second_in(all_campaigns, g)
                /\ campaigns' = bump_second_in(campaigns, g)
       ELSE UNCHANGED <<all_campaigns, campaigns>>
    /\ last_op' = Op("bump_second", {}, "", "")
    /\ UNCHANGED <<state, watcher_rx, mining_status, current_attempt_game, has_live_stream,
                   transient_error_count, failed_game_attempts, watching_channel,
                   priority_games, drops_subscribed_selected, excluded_games, events, channel, loops, now>>

\* a claimed item of inventory.gameEventDrops (models/inventory.rs
\* GameEventDrop)
GameEventDrop(id, name, total_count) == [id |-> id, name |-> name, total_count |-> total_count]

\* str::contains on the drop names and game names of the model
name_contains(n, g) == <<n, g>> \in {<<"G1 Trophy", "G1">>, <<"G3 Banner", "G3">>}

\* format!("{}_{}", id, i) on the ids of the model
format_id(id, i) ==
    CASE id = "e1" /\ i = 0 -> "e1_0"
      [] id = "e1" /\ i = 1 -> "e1_1"
      [] id = "e3" /\ i = 0 -> "e3_0"
      [] id = "e3" /\ i = 1 -> "e3_1"
      [] OTHER -> "other"

\* the placeholder drops built for the claimed item d, mod.rs:199-219
completed_drops_of(d) ==
    LET count == IF d.total_count > 1 THEN d.total_count ELSE 1
    IN  [i \in 1 .. count |->
            [id |-> format_id(d.id, i - 1), name |-> d.name, required_minutes |-> 0,
             self_info |-> Some(DropSelfInfo(0, TRUE, Some(d.id))),
             benefit_edges |-> <<>>, extra_minutes |-> 0, extra_seconds |-> 0]]

RECURSIVE completed_drops(_)
completed_drops(matching) ==
    IF matching = <<>> THEN <<>>
    ELSE completed_drops_of(Head(matching)) \o completed_drops(Tail(matching))

\* fetch_inventory, second part (mod.rs:168-226): a subscribed campaign of
\* all_campaigns without drops gets one claimed placeholder drop per counted
\* item whose name contains the name of its game
with_placeholders(all, pg, event_drops) ==
    [i \in 1 .. Len(all) |->
        LET matches(d) == name_contains(d.name, all[i].game)
            matching == SelectSeq(event_drops, matches)
        IN  IF /\ \E k \in 1 .. Len(pg) : pg[k] = all[i].game
               /\ Len(all[i].time_based_drops) = 0
               /\ matching # <<>>
            THEN [all[i] EXCEPT !.time_based_drops = completed_drops(matching)]
            ELSE all[i]]

\* an answer to a campaign or inventory query: the request failed, or data
FetchAnswers(D) == {[ok |-> FALSE, data |-> <<>>]} \cup {[ok |-> TRUE, data |-> d] : d \in D}

\* fetch_all_campaigns (mod.rs:267-333) on answer r
after_fetch_all(all, r) == IF r.ok THEN carry_over(all, r.data) ELSE all

\* fetch_inventory (mod.rs:135-264) on answer r
after_fetch_inventory(inv, r) == IF r.ok THEN r.data ELSE inv

\* refresh_data_background, mod.rs:486-510, with priority list pg
RefreshDataWith(P, pg) ==
    IF gql = None
    THEN UNCHANGED <<all_campaigns, campaigns, gql>>
    ELSE \E ck \in P.cookies, ar \in P.all_campaigns, ir \in P.inventory, ed \in P.event_drops :
        LET ic == init_cookies(Unwrap(gql), ck)
        IN  /\ gql' = Some(ic.gql)
            /\ IF ~ic.ok \/ ~ar.ok
               THEN UNCHANGED <<all_campaigns, campaigns>>
               ELSE LET fetched == after_fetch_all(all_campaigns, ar)
                        merged == merge_inventory(
                                      IF ir.ok THEN with_placeholders(fetched, pg, ed) ELSE fetched,
                                      after_fetch_inventory(campaigns, ir), pg)
                    IN  /\ campaigns' = after_fetch_inventory(campaigns, ir)
                        /\ \E det \in [campaigns_needing_fetch(merged, pg, now) -> P.details] :
                               all_campaigns' = merge_details(merged, det)

\* refresh_data_background as the 60 s timer calls it
RefreshDataBackground(P) == RefreshDataWith(P, priority_games)

\* the 60 s refresh of the master tick, main.rs:157-168
RefreshTimer(P) ==
    /\ is_logged_in
    /\ events = <<>>
    /\ IF state = "Idle"
       THEN /\ state' = "AllCampaignsFetch"
            /\ UNCHANGED <<all_campaigns, campaigns, gql>>
       ELSE /\ RefreshDataBackground(P)
            /\ UNCHANGED state
    /\ last_op' = Other
    /\ UNCHANGED <<login_flow_vars, watcher_rx, mining_status, current_attempt_game, has_live_stream,
                   transient_error_count, failed_game_attempts, watching_channel,
                   priority_games, drops_subscribed_selected, excluded_games, events, channel, loops, now>>

\* the state machine of the master tick in state AllCampaignsFetch, main.rs:241-255
FetchAllCampaigns(P) ==
    /\ events = <<>>
    /\ state = "AllCampaignsFetch"
    /\ IF gql = None
       THEN UNCHANGED <<all_campaigns, gql>>
       ELSE \E ck \in P.cookies, ar \in P.all_campaigns :
               LET ic == init_cookies(Unwrap(gql), ck)
               IN  /\ gql' = Some(ic.gql)
                   /\ all_campaigns' = IF ic.ok THEN after_fetch_all(all_campaigns, ar)
                                       ELSE all_campaigns
    /\ state' = "InventoryFetch"
    /\ last_op' = Other
    /\ UNCHANGED <<login_flow_vars, watcher_rx, mining_status, current_attempt_game, has_live_stream,
                   transient_error_count, failed_game_attempts, watching_channel,
                   priority_games, drops_subscribed_selected, excluded_games, campaigns, events, channel, loops, now>>

\* the state machine of the master tick in state InventoryFetch, main.rs:204-240:
\* fetch_inventory, then fetch_subscribed_campaign_details when it succeeded
FetchInventory(P) ==
    /\ events = <<>>
    /\ state = "InventoryFetch"
    /\ IF gql = None
       THEN UNCHANGED <<all_campaigns, campaigns, gql>>
       ELSE \E ck \in P.cookies, ir \in P.inventory, ed \in P.event_drops :
               LET ic == init_cookies(Unwrap(gql), ck)
               IN  /\ gql' = Some(ic.gql)
                   /\ IF ~ic.ok \/ ~ir.ok
                      THEN UNCHANGED <<all_campaigns, campaigns>>
                      ELSE LET merged == merge_inventory(
                                             with_placeholders(all_campaigns, priority_games, ed),
                                             ir.data, priority_games)
                           IN  /\ campaigns' = ir.data
                               /\ \E det \in [campaigns_needing_fetch(merged, priority_games, now)
                                                  -> P.details] :
                                      all_campaigns' = merge_details(merged, det)
    /\ state' = IF IsSome(watcher_rx) THEN "Watching" ELSE "Idle"
    /\ last_op' = Other
    /\ UNCHANGED <<login_flow_vars, watcher_rx, mining_status, current_attempt_game, has_live_stream,
                   transient_error_count, failed_game_attempts, watching_channel,
                   priority_games, drops_subscribed_selected, excluded_games, events, channel, loops, now>>

\* the clock; the program reads it only to compare it with the instants in
\* failed_game_attempts (the campaigns of the model end far in the future)
AdvanceTime ==
    /\ UNCHANGED login_vars
    /\ events = <<>>
    /\ now + TimeStep <= MaxTime
    /\ \E g \in Games : IsSome(failed_game_attempts[g])
    /\ now' = now + TimeStep
    /\ last_op' = Other
    /\ UNCHANGED <<app_vars, channel, loops>>

\* one step of mine_loop with outcome out = <<loop record, events sent>>
LoopStep(id, out, max_failures) ==
    /\ UNCHANGED login_vars
    /\ loops[id].stopped_iters < MaxStoppedIters
    /\ out[1].consecutive_loop_failures <= max_failures
    /\ Len(events) + Len(channel) + Len(out[2]) <= MaxQueue
    /\ loops' = [loops EXCEPT ![id] = out[1]]
    /\ channel' = channel \o out[2]
    /\ last_op' = Other
    /\ UNCHANGED <<app_vars, now>>

\* the token refresh of an iteration, with HLS touch and pulse (whose
\* failures are only logged), watcher.rs:286-360
L_Token(P, id) ==
    /\ loops[id].pc = "token"
    /\ \E out \in TokenRound(id, loops[id], P.token) : LoopStep(id, out, P.max_failures)

\* the rapid-retry drop check of an iteration, watcher.rs:366-643
L_Probe(P, id) ==
    /\ loops[id].pc = "probe"
    /\ \E k \in {0, PROBE_ATTEMPTS - 1}, r \in P.probe :
           LET out == ProbeRound(id, loops[id], [i \in 1 .. k |-> ProbeNoContext] \o <<r>>)
           IN  /\ out[1].pc # "probe"
               /\ LoopStep(id, out, P.max_failures)

L_Claim(P, id) ==
    /\ loops[id].pc = "claim"
    /\ \E ok \in P.claim : LoopStep(id, ClaimStep(id, loops[id], ok), P.max_failures)

L_Followup(P, id) ==
    /\ loops[id].pc = "followup"
    /\ \E r \in P.followup : LoopStep(id, FollowupStep(id, loops[id], r), P.max_failures)

\* A platform: the sets of answers the queries of the program may get, the
\* number of consecutive iterations it lets a loop go without a drop context,
\* the claimed items its inventory answers may list (none unless stated),
\* what init_cookies finds (a cookie jar unless stated), and the answers to
\* the requests of a login task with the number of tasks it lets run.
Platform(token, probe, claim, followup, directory, all, inv, details) ==
    [token |-> token, probe |-> probe, claim |-> claim, followup |-> followup,
     directory |-> directory, all_campaigns |-> all, inventory |-> inv, details |-> details,
     max_failures |-> MaxLoopFailures, event_drops |-> {<<>>}, cookies |-> {"jar"},
     login |-> [init |-> {}, device |-> {}, poll |-> {}, validate |-> {}, max_tasks |-> 0]]

\* the platform P, withholding the drop context for longer
Withholding(P) == [P EXCEPT !.max_failures = MaxWithheld]

\* the platform P, its inventory answers listing the claimed items of E
WithEventDrops(P, E) == [P EXCEPT !.event_drops = E]

\* The Scheduler over the configurations Configs: the platform grants the
\* tokens and answers the drop check with no context, a drop in progress or a
\* drop that is ready and cannot be claimed.
SchedulerPlatform ==
    Platform({"both"}, {ProbeNoContext, InProgress("currentUser"), Ready("absent", "null")},
             {}, {},
             {"empty", "invalid_edge", "valid"},
             FetchAnswers(AllCampaignsResponses), FetchAnswers(InventoryResponses), {<<>>})

Next ==
    \/ TryAutostart(SchedulerPlatform)
    \/ CheckPrioritySwitch(SchedulerPlatform)
    \/ TickDrain
    \/ HandleWorkerEvent
    \/ RefreshTimer(SchedulerPlatform)
    \/ FetchAllCampaigns(SchedulerPlatform)
    \/ FetchInventory(SchedulerPlatform)
    \/ AdvanceTime
    \/ \E id \in LoopIds : L_Token(SchedulerPlatform, id)
    \/ \E id \in LoopIds : L_Probe(SchedulerPlatform, id)

Spec == Init(Configs) /\ [][Next]_vars

\* One game, campaign data always delivered, a stream always live: the platform
\* refuses or grants the tokens and answers the drop check in every way that
\* leads to no claim.
FaultsPlatform ==
    Platform(TokenResponses,
             {ProbeNoContext, InProgress("currentUser"), AlreadyClaimed},
             {}, {}, {"valid"},
             {a \in FetchAnswers(AllCampaignsResponses) : a.ok},
             {a \in FetchAnswers(InventoryResponses) : a.ok}, {<<>>})

NextFaults ==
    \/ TryAutostart(FaultsPlatform)
    \/ CheckPrioritySwitch(FaultsPlatform)
    \/ TickDrain
    \/ HandleWorkerEvent
    \/ RefreshTimer(FaultsPlatform)
    \/ FetchAllCampaigns(FaultsPlatform)
    \/ FetchInventory(FaultsPlatform)
    \/ \E id \in LoopIds : L_Token(FaultsPlatform, id)
    \/ \E id \in LoopIds : L_Probe(FaultsPlatform, id)

SpecFaults ==
    Init({[priority_games |-> <<"G1">>, excluded_games |-> {}]}) /\ [][NextFaults]_vars

\* One game, tokens granted, a stream always live: the platform answers the
\* drop check, the claim and the follow-up check in every way.
ClaimPlatform ==
    Platform({"both"}, ProbeResponses, BOOLEAN, FollowupResponses, {"err", "valid"},
             {a \in FetchAnswers(AllCampaignsResponses) : a.ok},
             {a \in FetchAnswers(InventoryResponses) : a.ok}, {<<>>})

NextClaim ==
    \/ TryAutostart(ClaimPlatform)
    \/ CheckPrioritySwitch(ClaimPlatform)
    \/ TickDrain
    \/ HandleWorkerEvent
    \/ RefreshTimer(ClaimPlatform)
    \/ FetchAllCampaigns(ClaimPlatform)
    \/ FetchInventory(ClaimPlatform)
    \/ \E id \in LoopIds : L_Token(ClaimPlatform, id)
    \/ \E id \in LoopIds : L_Probe(ClaimPlatform, id)
    \/ \E id \in LoopIds : L_Claim(ClaimPlatform, id)
    \/ \E id \in LoopIds : L_Followup(ClaimPlatform, id)

SpecClaim ==
    Init({[priority_games |-> <<"G1">>, excluded_games |-> {}]}) /\ [][NextClaim]_vars

\* One game, tokens granted, a stream always live, campaign data always
\* delivered: the platform reports a drop in progress or claimed, or withholds
\* the drop context, for up to MaxWithheld iterations in a row.
LoopPlatform ==
    Withholding(Platform({"both"}, {ProbeNoContext, InProgress("currentUser"), AlreadyClaimed},
                         {}, {}, {"valid"},
                         {a \in FetchAnswers(AllCampaignsResponses) : a.ok},
                         {a \in FetchAnswers(InventoryResponses) : a.ok}, {<<>>}))

NextLoop ==
    \/ TryAutostart(LoopPlatform)
    \/ TickDrain
    \/ HandleWorkerEvent
    \/ FetchAllCampaigns(LoopPlatform)
    \/ FetchInventory(LoopPlatform)
    \/ \E id \in LoopIds : L_Token(LoopPlatform, id)
    \/ \E id \in LoopIds : L_Probe(LoopPlatform, id)

SpecLoop ==
    Init({[priority_games |-> <<"G1">>, excluded_games |-> {}]}) /\ [][NextLoop]_vars

\* Three games, tokens granted: the directory query fails, finds no stream or
\* finds a stream that can be watched; the drop check finds no context or a
\* drop in progress.
SwitchPlatform ==
    Platform({"both"}, {ProbeNoContext, InProgress("currentUser")}, {}, {},
             {"err", "empty", "valid"},
             {a \in FetchAnswers(AllCampaignsResponses) : a.ok},
             {a \in FetchAnswers(InventoryResponses) : a.ok}, {<<>>})

NextSwitch ==
    \/ TryAutostart(SwitchPlatform)
    \/ CheckPrioritySwitch(SwitchPlatform)
    \/ TickDrain
    \/ HandleWorkerEvent
    \/ FetchAllCampaigns(SwitchPlatform)
    \/ FetchInventory(SwitchPlatform)
    \/ AdvanceTime
    \/ \E id \in LoopIds : L_Token(SwitchPlatform, id)
    \/ \E id \in LoopIds : L_Probe(SwitchPlatform, id)

SpecSwitch ==
    Init({[priority_games |-> <<"G3", "G1", "G2">>, excluded_games |-> {}]}) /\ [][NextSwitch]_vars

\* G3 before G1, both with an eligible campaign and a live stream, tokens
\* granted, campaign data always delivered: every drop check that finds a
\* drop reports it as claimed already.
ClaimedPlatform ==
    Platform({"both"}, {AlreadyClaimed, NextAlreadyClaimed}, {}, {}, {"valid"},
             {a \in FetchAnswers(AllCampaignsResponses) : a.ok},
             {a \in FetchAnswers(InventoryResponses) : a.ok}, {<<>>})

NextClaimed ==
    \/ TryAutostart(ClaimedPlatform)
    \/ CheckPrioritySwitch(ClaimedPlatform)
    \/ TickDrain
    \/ HandleWorkerEvent
    \/ RefreshTimer(ClaimedPlatform)
    \/ FetchAllCampaigns(ClaimedPlatform)
    \/ FetchInventory(ClaimedPlatform)
    \/ \E id \in LoopIds : L_Token(ClaimedPlatform, id)
    \/ \E id \in LoopIds : L_Probe(ClaimedPlatform, id)

\* The master tick comes round every 100 ms and runs each of its parts when
\* its timer is due (main.rs:106-168): the autostart check every 2 s spent in
\* state Idle and the priority check every 60 s spent in state Watching,
\* whatever the 60 s refresh does to the state in between; a spawned
\* mine_loop task is scheduled by the runtime and wakes up from its sleeps
\* (watcher_mgmt.rs:55-69).
FairClaimed ==
    /\ SF_vars(TryAutostart(ClaimedPlatform))
    /\ SF_vars(CheckPrioritySwitch(ClaimedPlatform))
    /\ WF_vars(TickDrain)
    /\ WF_vars(HandleWorkerEvent)
    /\ WF_vars(RefreshTimer(ClaimedPlatform))
    /\ WF_vars(FetchAllCampaigns(ClaimedPlatform))
    /\ WF_vars(FetchInventory(ClaimedPlatform))
    /\ \A id \in LoopIds : WF_vars(L_Token(ClaimedPlatform, id))
    /\ \A id \in LoopIds : WF_vars(L_Probe(ClaimedPlatform, id))

\* G3 placed before G1, with or without a third game that has no campaign
ClaimedConfigs ==
    { [priority_games |-> <<"G3", "G1">>, excluded_games |-> {}],
      [priority_games |-> <<"G3", "G1", "G2">>, excluded_games |-> {}],
      [priority_games |-> <<"G2", "G3", "G1">>, excluded_games |-> {}] }

SpecClaimed ==
    /\ Init(ClaimedConfigs)
    /\ [][NextClaimed]_vars
    /\ FairClaimed

-----------------------------------------------------------------------------
(* The data model under a running Scheduler: campaign data after some time  *)
(* of watching, Status reconciliation, the 1-second timer, claims and       *)
(* refreshes.                                                               *)

WithId(c, id) == [c EXCEPT !.id = id]
WithDropId(d, id) == [d EXCEPT !.id = id]
WithExtra(d, e) == [d EXCEPT !.extra_minutes = e[1], !.extra_seconds = e[2]]

\* values of <<extra_minutes, extra_seconds>> that the timer produces
LocalExtras == {<<0, 0>>, <<0, 59>>, <<14, 59>>, <<MAX_EXTRA_MINUTES, 0>>}

\* a campaign of a game the user has not subscribed to, whose drop has the
\* name of a drop of G1
OtherGameCampaign ==
    WithId(DropsCampaign("G2", "ACTIVE", 100000, <<WithDropId(TimedDrop("d1", 20, None), "x1")>>),
           "c3")

\* all_campaigns after some time of watching G1: one campaign of G1 whose
\* drop has been watched for a minute, or two campaigns of G1 with one drop each
DataAllCampaigns ==
    { << WithId(DropsCampaign("G1", "ACTIVE", 100000,
                  <<WithExtra(TimedDrop("d1", 20, Some(DropSelfInfo(1, FALSE, None))), e)>>), "c1"),
         OtherGameCampaign >> : e \in LocalExtras }
    \cup
    { << WithId(DropsCampaign("G1", "ACTIVE", 100000,
                  <<WithExtra(TimedDrop("d1", 20, None), <<0, 59>>)>>), "c1"),
         WithId(DropsCampaign("G1", "ACTIVE", 100000,
                  <<WithExtra(TimedDrop("d2", 20, None), <<0, 59>>)>>), "c2"),
         OtherGameCampaign >> }

\* campaigns (the inventory) at that time
DataCampaigns ==
    { <<>> } \cup
    { << WithId(DropsCampaign("G1", "ACTIVE", 100000,
                  <<WithExtra(TimedDrop("d1", 20, Some(DropSelfInfo(1, FALSE, None))), e)>>), "c1") >>
      : e \in {<<0, 0>>, <<14, 59>>} }

\* the dashboard list, with and without the drops of its campaigns
DashboardResponses ==
    { << WithId(DropsCampaign("G1", "ACTIVE", 100000, <<>>), "c1"),
         WithId(DropsCampaign("G2", "ACTIVE", 100000, <<>>), "c3") >>,
      << WithId(DropsCampaign("G1", "ACTIVE", 100000, <<TimedDrop("d1", 20, None)>>), "c1") >> }

\* the inventory: nothing in progress, or the campaign of G1 with its drop
DataInventoryResponses ==
    { <<>>,
      << WithId(DropsCampaign("G1", "ACTIVE", 100000,
                  <<TimedDrop("d1", 20, Some(DropSelfInfo(2, FALSE, None)))>>), "c1") >> }

\* the drops of a campaign-details answer (none: the request failed)
DetailsResponses == { <<>>, <<TimedDrop("d1", 20, Some(DropSelfInfo(1, FALSE, None)))>> }

\* a drop of three minutes, watched for two
TwoOfThree == ProbeR(TRUE, "currentUser", 3, 2, FALSE, "d1", "id1", "absent")

\* One game, tokens granted, a stream always live, campaign data always
\* delivered: the drop check reports progress on d1 or d2, or d1 claimed.
DataPlatform ==
    Platform({"both"},
             {InProgress("currentUser"), TwoOfThree, NextDrop("currentUser"), AlreadyClaimed},
             {}, {}, {"valid"},
             {a \in FetchAnswers(DashboardResponses) : a.ok},
             {a \in FetchAnswers(DataInventoryResponses) : a.ok},
             DetailsResponses)

\* the Scheduler idle, with the campaign data of a session that has been
\* watching G1
InitData ==
    /\ state = "Idle"
    /\ watcher_rx = None
    /\ mining_status = None
    /\ current_attempt_game = None
    /\ has_live_stream = FALSE
    /\ transient_error_count = 0
    /\ failed_game_attempts = [g \in Games |-> None]
    /\ watching_channel = None
    /\ priority_games = <<"G1">>
    /\ drops_subscribed_selected = 0
    /\ excluded_games = {}
    /\ all_campaigns \in DataAllCampaigns
    /\ campaigns \in DataCampaigns
    /\ events = <<>>
    /\ channel = <<>>
    /\ loops = [id \in LoopIds |-> FreeLoop]
    /\ now = 0
    /\ last_op = Other
    /\ LoggedIn(with_unique_id(GqlClient("device"), "jar"))

NextData ==
    \/ TryAutostart(DataPlatform)
    \/ TickDrain
    \/ HandleWorkerEvent
    \/ BumpSecond
    \/ RefreshTimer(DataPlatform)
    \/ FetchAllCampaigns(DataPlatform)
    \/ FetchInventory(DataPlatform)
    \/ \E id \in LoopIds : L_Token(DataPlatform, id)
    \/ \E id \in LoopIds : L_Probe(DataPlatform, id)

SpecData == InitData /\ [][NextData]_vars

\* the claimed items of the account: none, a trophy of an earlier G1 campaign
\* (counted once or twice), or that trophy and a banner of G3
ClaimedItems ==
    { <<>>,
      <<GameEventDrop("e1", "G1 Trophy", 0)>>,
      <<GameEventDrop("e1", "G1 Trophy", 2), GameEventDrop("e3", "G3 Banner", 1)>> }

\* Campaign c1 of G1 is active and its drop d1 is unclaimed on the platform:
\* the dashboard lists c1 with or without its drops, the inventory lists it
\* once the account has progress on it, the campaign details list d1
\* unclaimed (or fail); the inventory may list claimed items of earlier
\* campaigns. The dashboard and inventory queries are always answered.
RefreshPlatform ==
    WithEventDrops(Platform({"both"}, {InProgress("currentUser")}, {}, {}, {"valid"},
                            {a \in FetchAnswers(DashboardResponses) : a.ok},
                            {a \in FetchAnswers(DataInventoryResponses) : a.ok},
                            DetailsResponses),
                   ClaimedItems)

\* the Scheduler idle before its first refresh, subscribed to G1, or to G1
\* and G2
InitRefresh ==
    /\ state = "Idle"
    /\ watcher_rx = None
    /\ mining_status = None
    /\ current_attempt_game = None
    /\ has_live_stream = FALSE
    /\ transient_error_count = 0
    /\ failed_game_attempts = [g \in Games |-> None]
    /\ watching_channel = None
    /\ priority_games \in {<<"G1">>, <<"G2", "G1">>}
    /\ drops_subscribed_selected = 0
    /\ excluded_games = {}
    /\ all_campaigns = <<>>
    /\ campaigns = <<>>
    /\ events = <<>>
    /\ channel = <<>>
    /\ loops = [id \in LoopIds |-> FreeLoop]
    /\ now = 0
    /\ last_op = Other
    /\ LoggedIn(GqlClient("device"))

NextRefresh ==
    \/ RefreshTimer(RefreshPlatform)
    \/ FetchAllCampaigns(RefreshPlatform)
    \/ FetchInventory(RefreshPlatform)
    \/ BumpSecond

SpecRefresh == InitRefresh /\ [][NextRefresh]_vars

-----------------------------------------------------------------------------
(* The priority list and the Drops page: src/app/campaigns.rs,              *)
(* src/app/navigation.rs. Cursors and indices are 0-based as in the code;   *)
(* the sequence places are one higher.                                      *)

\* active_campaigns, campaigns.rs:19-24
active_campaigns(cs, excl, t) ==
    LET keep(c) == is_active(c, t) /\ c.game \notin excl
    IN  SelectSeq(cs, keep)

\* position of the game in the priority list (0 stands for None)
priority_position(pg, g) == position({i \in 1 .. Len(pg) : pg[i] = g})

\* an order by end time alone
le_by_end_time(pg, a, b) == a.ends_at <= b.ends_at

\* the comparator of prioritized_campaigns is not Greater, campaigns.rs:30-48
priority_le(pg, a, b) ==
    LET a_priority == priority_position(pg, a.game)
        b_priority == priority_position(pg, b.game)
    IN  IF a_priority # 0 /\ b_priority # 0 THEN a_priority <= b_priority
        ELSE IF a_priority # 0 THEN TRUE
        ELSE IF b_priority # 0 THEN FALSE
        ELSE a.ends_at <= b.ends_at

\* slice::sort_by with that comparator: a stable sort, done by insertion of
\* each element behind the elements that are not Greater
RECURSIVE sort_by(_, _)
sort_by(cs, pg) ==
    IF cs = <<>> THEN <<>>
    ELSE LET rest == sort_by(SubSeq(cs, 1, Len(cs) - 1), pg)
             x == cs[Len(cs)]
             k == Cardinality({i \in 1 .. Len(rest) : priority_le(pg, rest[i], x)})
         IN  SubSeq(rest, 1, k) \o <<x>> \o SubSeq(rest, k + 1, Len(rest))

\* prioritized_campaigns, campaigns.rs:27-51
prioritized_campaigns(cs, pg, excl, t) == sort_by(active_campaigns(cs, excl, t), pg)

\* toggle_game_subscription, campaigns.rs:132-152
toggle_game_subscription(pg, game_name) ==
    LET other(g) == g # game_name
    IN  IF game_name \in subscribed(pg) THEN SelectSeq(pg, other) ELSE Append(pg, game_name)

\* add_priority_game, campaigns.rs:154-165
add_priority_game(pg, game_name) ==
    IF game_name \in subscribed(pg) THEN pg ELSE <<game_name>> \o pg

\* Vec::swap(i, j); None: an index is out of range and the call panics
swap(s, i, j) ==
    IF i < Len(s) /\ j < Len(s)
    THEN Some([s EXCEPT ![i + 1] = s[j + 1], ![j + 1] = s[i + 1]])
    ELSE None

\* priority_games.len().saturating_sub(1)
max_idx(pg) == IF Len(pg) = 0 THEN 0 ELSE Len(pg) - 1

\* the list, the cursor and the value returned ("panic": no return)
MoveResult(pg, selected, result) == [list |-> pg, selected |-> selected, result |-> result]

\* the outcome of the swap of a move
Swapped(pg, sw, selected) ==
    IF IsSome(sw) THEN MoveResult(Unwrap(sw), selected, "true")
    ELSE MoveResult(pg, selected, "panic")

\* move_subscribed_game_up, navigation.rs:177-193
move_subscribed_game_up(pg, selected) ==
    IF selected = 0 \/ selected > max_idx(pg) THEN MoveResult(pg, selected, "false")
    ELSE Swapped(pg, swap(pg, selected, selected - 1), selected - 1)

\* a move down that lets the last entry through
move_subscribed_game_down_past_end(pg, selected) ==
    IF selected > max_idx(pg) THEN MoveResult(pg, selected, "false")
    ELSE Swapped(pg, swap(pg, selected, selected + 1), selected + 1)

\* move_subscribed_game_down, navigation.rs:198-212
move_subscribed_game_down(pg, selected) ==
    IF selected >= max_idx(pg) THEN MoveResult(pg, selected, "false")
    ELSE Swapped(pg, swap(pg, selected, selected + 1), selected + 1)

\* get_drops_all_games, navigation.rs:414-444: the games of the left panel
drops_all_games(all, inv, pg, t) ==
    {inv[i].game : i \in {j \in 1 .. Len(inv) : /\ is_active(inv[j], t)
                                                 /\ inv[j].game \notin subscribed(pg)}}
    \cup {all[i].game : i \in {j \in 1 .. Len(all) : all[j].game \notin subscribed(pg)}}

\* what the Drops page leaves alone, apart from the watching session
page_frame == <<transient_error_count, failed_game_attempts, excluded_games, events, loops, now,
                login_flow_vars>>

data_vars == <<all_campaigns, campaigns, gql>>

session_vars == <<state, watcher_rx, mining_status, current_attempt_game, has_live_stream,
                  watching_channel, channel>>

\* Shift+Up on the subscribed panel, main.rs:419-434: the move, followed when
\* it returns true by check_priority_switch, which returns at once while no
\* stream is watched (watcher_mgmt.rs:89-91)
MoveSubscribedGameUp ==
    /\ events = <<>>
    /\ ~(has_live_stream /\ IsSome(mining_status))
    /\ LET r == move_subscribed_game_up(priority_games, drops_subscribed_selected)
       IN  /\ priority_games' = r.list
           /\ drops_subscribed_selected' = r.selected
           /\ last_op' = Op("move_up", {}, r.result, "")
    /\ UNCHANGED <<page_frame, data_vars, session_vars>>

\* Shift+Down on the subscribed panel, main.rs:442-457
MoveSubscribedGameDown ==
    /\ events = <<>>
    /\ ~(has_live_stream /\ IsSome(mining_status))
    /\ LET r == move_subscribed_game_down(priority_games, drops_subscribed_selected)
       IN  /\ priority_games' = r.list
           /\ drops_subscribed_selected' = r.selected
           /\ last_op' = Op("move_down", {}, r.result, "")
    /\ UNCHANGED <<page_frame, data_vars, session_vars>>

\* move_drops_selection_up, navigation.rs:379-392, focus on the subscribed panel
MoveDropsSelectionUp ==
    /\ events = <<>>
    /\ drops_subscribed_selected' =
           IF drops_subscribed_selected > 0 THEN drops_subscribed_selected - 1
           ELSE drops_subscribed_selected
    /\ last_op' = Op("select_up", {}, "", "")
    /\ UNCHANGED <<priority_games, page_frame, data_vars, session_vars>>

\* move_drops_selection_down, navigation.rs:395-410, focus on the subscribed panel
MoveDropsSelectionDown ==
    /\ events = <<>>
    /\ drops_subscribed_selected' =
           IF Len(priority_games) > 0 /\ drops_subscribed_selected < Len(priority_games) - 1
           THEN drops_subscribed_selected + 1
           ELSE drops_subscribed_selected
    /\ last_op' = Op("select_down", {}, "", "")
    /\ UNCHANGED <<priority_games, page_frame, data_vars, session_vars>>

\* toggle_drops_subscription on the game name, navigation.rs:497-521
ToggleSelected(name) ==
    /\ priority_games' = toggle_game_subscription(priority_games, name)
    /\ IF name \notin subscribed(priority_games')
       THEN /\ IF Some(name) = active_game(mining_status, current_attempt_game)
               THEN StopWatching
               ELSE UNCHANGED session_vars
            /\ drops_subscribed_selected' =
                   IF /\ drops_subscribed_selected >= Len(priority_games')
                      /\ drops_subscribed_selected > 0
                   THEN drops_subscribed_selected - 1
                   ELSE drops_subscribed_selected
            /\ last_op' = Op("toggle", {}, "unsubscribed", name)
       ELSE /\ UNCHANGED <<session_vars, drops_subscribed_selected>>
            /\ last_op' = Op("toggle", {}, "subscribed", name)

\* Enter on the Drops page, main.rs:467-481: toggle_drops_subscription
\* (navigation.rs:484-524) on the game under the cursor of the focused panel
\* (the cursor of the left panel is an input), followed by a background
\* refresh when a game was toggled
ToggleDropsSubscription(P) ==
    /\ events = <<>>
    /\ UNCHANGED page_frame
    /\ \/ \E name \in drops_all_games(all_campaigns, campaigns, priority_games, now) :
              ToggleSelected(name) /\ RefreshDataWith(P, priority_games')
       \/ /\ drops_subscribed_selected < Len(priority_games)
          /\ ToggleSelected(priority_games[drops_subscribed_selected + 1])
          /\ RefreshDataWith(P, priority_games')
       \/ /\ \/ drops_all_games(all_campaigns, campaigns, priority_games, now) = {}
             \/ drops_subscribed_selected >= Len(priority_games)
          /\ last_op' = Op("toggle", {}, "No game selected", "")
          /\ UNCHANGED <<priority_games, drops_subscribed_selected, session_vars, data_vars>>

\* add_priority_game (Search/Add), campaigns.rs:154-165
AddPriorityGame ==
    /\ events = <<>>
    /\ \E game_name \in Games :
          /\ priority_games' = add_priority_game(priority_games, game_name)
          /\ last_op' = Op("add", {}, IF game_name \in subscribed(priority_games)
                                      THEN "already" ELSE "added", game_name)
    /\ UNCHANGED <<drops_subscribed_selected, page_frame, data_vars, session_vars>>

\* the sequences without repetition over the set S
OrderedSets(S) ==
    {s \in UNION {[1 .. n -> S] : n \in 0 .. Cardinality(S)} :
        \A i, j \in 1 .. Len(s) : s[i] = s[j] => i = j}

\* a campaign that has not started yet
NotStarted(c) == [c EXCEPT !.starts_at = 10]

\* inventories of five and four campaigns over the three games: two of G1,
\* an expired one, one not started, equal and different end times
PriorityCampaigns ==
    LET a == WithId(DropsCampaign("G1", "ACTIVE", 300, <<>>), "a")
        b == WithId(DropsCampaign("G2", "ACTIVE", 200, <<>>), "b")
        c == WithId(DropsCampaign("G3", "ACTIVE", 100, <<>>), "c")
        d == WithId(DropsCampaign("G2", "EXPIRED", 50, <<>>), "d")
        e == WithId(DropsCampaign("G1", "ACTIVE", 100, <<>>), "e")
        f == WithId(NotStarted(DropsCampaign("G3", "ACTIVE", 400, <<>>)), "f")
    IN  { <<a, b, c, d, e>>, <<c, e, b, a>>, <<f, e, d, c, b, a>> }

\* the campaign queries fail or deliver one of these inventories
PriorityPlatform ==
    Platform({}, {}, {}, {}, {}, FetchAnswers(PriorityCampaigns), FetchAnswers(PriorityCampaigns),
             {<<>>})

\* the Scheduler idle with a priority list without duplicates, as config.json
\* holds it, and an inventory
InitPriority ==
    /\ state = "Idle"
    /\ watcher_rx = None
    /\ mining_status = None
    /\ current_attempt_game = None
    /\ has_live_stream = FALSE
    /\ transient_error_count = 0
    /\ failed_game_attempts = [g \in Games |-> None]
    /\ watching_channel = None
    /\ priority_games \in OrderedSets(Games)
    /\ drops_subscribed_selected = 0
    /\ excluded_games \in {{}, {"G2"}}
    /\ campaigns \in PriorityCampaigns
    /\ all_campaigns = campaigns
    /\ events = <<>>
    /\ channel = <<>>
    /\ loops = [id \in LoopIds |-> FreeLoop]
    /\ now = 0
    /\ last_op = Other
    /\ LoggedIn(with_unique_id(GqlClient("device"), "jar"))

NextPriority ==
    \/ MoveSubscribedGameUp
    \/ MoveSubscribedGameDown
    \/ MoveDropsSelectionUp
    \/ MoveDropsSelectionDown
    \/ ToggleDropsSubscription(PriorityPlatform)
    \/ AddPriorityGame

SpecPriority == InitPriority /\ [][NextPriority]_vars

-----------------------------------------------------------------------------
(* The cleanup claim: src/app/watcher_mgmt.rs claim_unclaimed_drops         *)

\* TimedDrop::can_claim, inventory.rs:197-205
can_claim(d) ==
    IF IsSome(d.self_info)
    THEN LET info == Unwrap(d.self_info)
         IN  /\ info.current_minutes_watched >= d.required_minutes
             /\ ~info.is_claimed
             /\ IsSome(info.drop_instance_id)
    ELSE FALSE

\* the name the cleanup claim uses for a drop: that of its first benefit,
\* else its own, watcher_mgmt.rs:377-381
display_name(d) == IF d.benefit_edges # <<>> THEN Head(d.benefit_edges) ELSE d.name

\* (game, drop, instance id) of the claimable drops of a drop list, in order
RECURSIVE claimable_drops(_, _)
claimable_drops(g, ds) ==
    IF ds = <<>> THEN <<>>
    ELSE (IF can_claim(Head(ds))
          THEN <<[game |-> g, name |-> display_name(Head(ds)),
                  instance_id |-> Unwrap(Unwrap(Head(ds).self_info).drop_instance_id)]>>
          ELSE <<>>) \o claimable_drops(g, Tail(ds))

\* the same over a list of campaigns
RECURSIVE claimable_in(_)
claimable_in(cs) ==
    IF cs = <<>> THEN <<>>
    ELSE claimable_drops(Head(cs).game, Head(cs).time_based_drops) \o claimable_in(Tail(cs))

\* the scan of all_campaigns, then campaigns, watcher_mgmt.rs:367-392
claims_found(all, inv) == claimable_in(all) \o claimable_in(inv)

\* the drop instance ids of the model, in the order of String::cmp
InstanceIds == <<"i1", "i2", "i3">>

\* sort_by on the instance id (a stable sort), watcher_mgmt.rs:406
sort_by_instance(s) ==
    LET with_id(k) == SelectSeq(s, LAMBDA c : c.instance_id = InstanceIds[k])
    IN  with_id(1) \o with_id(2) \o with_id(3)

\* a pass that skips the deduplication
keep_duplicates(s) == s

\* dedup_by on the instance id: of equal neighbours the first is kept,
\* watcher_mgmt.rs:407
RECURSIVE dedup_by_instance(_)
dedup_by_instance(s) ==
    IF Len(s) <= 1 THEN s
    ELSE IF s[1].instance_id = s[2].instance_id
         THEN dedup_by_instance(<<s[1]>> \o Tail(Tail(s)))
         ELSE <<s[1]>> \o dedup_by_instance(Tail(s))

\* claims_to_process when the claim loop starts, watcher_mgmt.rs:367-407
claims_to_process(all, inv) == dedup_by_instance(sort_by_instance(claims_found(all, inv)))

\* the claim loop on one list, watcher_mgmt.rs:409-431: ok[k] tells whether
\* the k-th claim request succeeded; a drop is marked after a success
RECURSIVE after_claims(_, _, _, _)
after_claims(cs, todo, ok, k) ==
    IF k > Len(todo) THEN cs
    ELSE after_claims(IF ok[k] THEN mark_claimed_in(cs, todo[k].game, todo[k].name) ELSE cs,
                      todo, ok, k + 1)

\* claim_unclaimed_drops, watcher_mgmt.rs:360-442, as the master tick calls it
\* every 60 s whatever the state (main.rs:147-154)
ClaimUnclaimedDrops(P) ==
    /\ is_logged_in
    /\ UNCHANGED login_vars
    /\ events = <<>>
    /\ LET todo == claims_to_process(all_campaigns, campaigns)
       IN  \E ok \in [1 .. Len(todo) -> P.claim] :
               /\ all_campaigns' = after_claims(all_campaigns, todo, ok, 1)
               /\ campaigns' = after_claims(campaigns, todo, ok, 1)
               /\ last_op' = [Op("claim_unclaimed_drops", {}, "Ok", "") EXCEPT
                                 !.calls = [k \in 1 .. Len(todo) |->
                                               [game |-> todo[k].game, name |-> todo[k].name,
                                                instance_id |-> todo[k].instance_id,
                                                ok |-> ok[k]]]]
    /\ UNCHANGED <<state, watcher_rx, mining_status, current_attempt_game, has_live_stream,
                   transient_error_count, failed_game_attempts, watching_channel,
                   priority_games, drops_subscribed_selected, excluded_games, events, channel, loops, now>>

WithBenefit(d, b) == [d EXCEPT !.benefit_edges = <<b>>]

\* a drop watched to the end, claimable under instance id i
ReadyDrop(name, i) == TimedDrop(name, 2, Some(DropSelfInfo(2, FALSE, Some(i))))

\* the dashboard list: the campaigns of G1 and G2, without their drops
CleanupDashboard ==
    { << WithId(DropsCampaign("G1", "ACTIVE", 100000, <<>>), "c1"),
         WithId(DropsCampaign("G2", "ACTIVE", 100000, <<>>), "c2") >> }

\* the inventory: drops of G1 and G2 that are in progress, ready (named after
\* themselves or after their benefit) or claimed
CleanupInventory ==
    LET c1(ds) == WithId(DropsCampaign("G1", "ACTIVE", 100000, ds), "c1")
        c2(ds) == WithId(DropsCampaign("G2", "ACTIVE", 100000, ds), "c2")
        going == TimedDrop("d2", 2, Some(DropSelfInfo(1, FALSE, None)))
        done == TimedDrop("d1", 2, Some(DropSelfInfo(2, TRUE, Some("i1"))))
    IN  { <<c1(<<ReadyDrop("d1", "i1"), going>>)>>,
          <<c1(<<done, ReadyDrop("d2", "i2")>>), c2(<<ReadyDrop("d3", "i3")>>)>>,
          <<c2(<<ReadyDrop("d3", "i3")>>), c1(<<ReadyDrop("d1", "i1"), ReadyDrop("d2", "i2")>>)>>,
          <<c1(<<WithBenefit(ReadyDrop("d1", "i1"), "b1"), going>>)>>,
          <<c1(<<done, going>>)>> }

\* G1 subscribed: the campaign queries deliver these lists or fail, a claim
\* request succeeds or fails
CleanupPlatform ==
    Platform({}, {}, BOOLEAN, {}, {}, FetchAnswers(CleanupDashboard),
             FetchAnswers(CleanupInventory), {<<>>})

NextCleanup ==
    \/ ClaimUnclaimedDrops(CleanupPlatform)
    \/ RefreshTimer(CleanupPlatform)
    \/ FetchAllCampaigns(CleanupPlatform)
    \/ FetchInventory(CleanupPlatform)

SpecCleanup ==
    Init({[priority_games |-> <<"G1">>, excluded_games |-> {}]}) /\ [][NextCleanup]_vars

-----------------------------------------------------------------------------
(* The session: the login/logout key (src/main.rs), the device-code login   *)
(* task (src/auth.rs), logout and set_auth (src/app/state.rs).              *)

\* is_login_pending, state.rs:101-103
is_login_pending == IsSome(login_code)

\* LoginMessage, main.rs:31-35; reason tells the Failed messages apart
LoginMessage(type, reason) == [type |-> type, reason |-> reason]

\* what the device endpoint answers: no code, or a code with its polling
\* interval and its life in seconds (DeviceCodeResponse)
DeviceCodeResponses ==
    { [ok |-> FALSE, interval |-> 5, expires_in |-> 0],
      [ok |-> TRUE, interval |-> 5, expires_in |-> 4],
      [ok |-> TRUE, interval |-> 5, expires_in |-> 10],
      [ok |-> TRUE, interval |-> 5, expires_in |-> 5 * MaxPolls + 2] }

\* what a token request meets: a transport error, or a response with its
\* status and whether its body parses as a TokenResponse
PollResponses ==
    { [err |-> TRUE, status |-> 0, parsable |-> FALSE],
      [err |-> FALSE, status |-> 200, parsable |-> TRUE],
      [err |-> FALSE, status |-> 200, parsable |-> FALSE],
      [err |-> FALSE, status |-> 400, parsable |-> FALSE],
      [err |-> FALSE, status |-> 500, parsable |-> FALSE] }

\* StatusCode::is_success
is_success(status) == 200 <= status /\ status <= 299

\* a spawned login task (main.rs:361-391): where it stands, the device code
\* it got, the loop counter and bound of poll_for_token, and the token
\* requests it has sent
LoginTask(pc, device, attempt, max_attempts, requests) ==
    [pc |-> pc, device |-> device, attempt |-> attempt, max_attempts |-> max_attempts,
     requests |-> requests]

NewLoginTask == LoginTask("init", None, 0, 0, 0)

\* the answer r to a token request, as the label of the step that got it
answer(r) ==
    IF r.err THEN "error"
    ELSE IF r.status = 200 THEN IF r.parsable THEN "200" ELSE "200 unparsable"
    ELSE IF r.status = 400 THEN "400"
    ELSE "other status"

\* the outcome of a step of a login task: the task (none: it returned) and
\* the messages it sent
Went(t, msgs) == [task |-> Some(t), msgs |-> msgs]
Ended(msgs) == [task |-> None, msgs |-> msgs]

\* authenticator.init(), main.rs:367-374
login_init(t, ok) ==
    IF ok THEN Went([t EXCEPT !.pc = "device"], <<>>)
    ELSE Ended(<<LoginMessage("Failed", "init")>>)

\* a poll_for_token that polls once more than the code lives
max_attempts_one_more(d) == d.expires_in \div d.interval + 1

\* poll_for_token: max_attempts, auth.rs:281
max_attempts_of(d) == d.expires_in \div d.interval

\* authenticate_async up to the first token request, auth.rs:202-220 and
\* 280-283: the device code is requested and handed to the UI; a code that
\* lives for less than one interval has expired without a poll
request_device_code(t, d) ==
    IF ~d.ok THEN Ended(<<LoginMessage("Failed", "device")>>)
    ELSE IF max_attempts_of(d) = 0
         THEN Ended(<<LoginMessage("CodeReady", ""), LoginMessage("Failed", "expired")>>)
         ELSE Went([t EXCEPT !.pc = "poll", !.device = Some(d), !.attempt = 0,
                             !.max_attempts = max_attempts_of(d)],
                   <<LoginMessage("CodeReady", "")>>)

\* one iteration of poll_for_token, auth.rs:283-331, with the end of the loop
\* when it was the last (auth.rs:334)
poll_for_token(t, r) ==
    LET u == [t EXCEPT !.requests = t.requests + 1]
    IN  IF r.err THEN Ended(<<LoginMessage("Failed", "transport")>>)
        ELSE IF is_success(r.status)
             THEN IF r.parsable THEN Went([u EXCEPT !.pc = "validate"], <<>>)
                  ELSE Ended(<<LoginMessage("Failed", "parse")>>)
        ELSE IF r.status # 400 THEN Ended(<<LoginMessage("Failed", "status")>>)
        ELSE IF t.attempt + 1 >= t.max_attempts
             THEN Ended(<<LoginMessage("Failed", "expired")>>)
             ELSE Went([u EXCEPT !.attempt = t.attempt + 1], <<>>)

\* validate_token and the end of the task, auth.rs:222-233, main.rs:376-390
validate_token(t, ok) ==
    IF ok THEN Ended(<<LoginMessage("Success", "")>>)
    ELSE Ended(<<LoginMessage("Failed", "validate")>>)

\* the list ts without its place i
without(ts, i) == [k \in 1 .. Len(ts) - 1 |-> IF k < i THEN ts[k] ELSE ts[k + 1]]

\* a step of login task i with outcome out, labelled op
LoginTaskStep(i, out, op) ==
    /\ Len(login_rx) + Len(out.msgs) <= MaxLoginQueue
    /\ login_tasks' = IF IsSome(out.task) THEN [login_tasks EXCEPT ![i] = Unwrap(out.task)]
                      ELSE without(login_tasks, i)
    /\ login_rx' = login_rx \o out.msgs
    /\ last_op' = op
    /\ UNCHANGED <<app_vars, channel, loops, now, auth, gql, login_code, auth_json>>

LoginInit(P) ==
    \E i \in 1 .. Len(login_tasks), ok \in P.login.init :
        /\ login_tasks[i].pc = "init"
        /\ LoginTaskStep(i, login_init(login_tasks[i], ok), Other)

RequestDeviceCode(P) ==
    \E i \in 1 .. Len(login_tasks), d \in P.login.device :
        /\ login_tasks[i].pc = "device"
        /\ LoginTaskStep(i, request_device_code(login_tasks[i], d), Other)

PollForToken(P) ==
    \E i \in 1 .. Len(login_tasks), r \in P.login.poll :
        /\ login_tasks[i].pc = "poll"
        /\ LoginTaskStep(i, poll_for_token(login_tasks[i], r),
                         Op("poll_for_token", {}, answer(r), ""))

ValidateToken(P) ==
    \E i \in 1 .. Len(login_tasks), ok \in P.login.validate :
        /\ login_tasks[i].pc = "validate"
        /\ LoginTaskStep(i, validate_token(login_tasks[i], ok), Other)

\* a login key that asks is_login_pending and the running tasks
login_key_open_checking_tasks(code, tasks) == ~IsSome(code) /\ tasks = <<>>

\* the test of the login/logout key, main.rs:349: the key is taken unless a
\* user code is on display
login_key_open(code, tasks) == ~IsSome(code)

\* the 'l' key without a session, main.rs:355-392: a login task is spawned
LoginKey(P) ==
    /\ events = <<>>
    /\ login_key_open(login_code, login_tasks)
    /\ ~is_logged_in
    /\ Len(login_tasks) < P.login.max_tasks
    /\ state' = "LoginPending"
    /\ login_tasks' = Append(login_tasks, NewLoginTask)
    /\ last_op' = Op("login", {}, "", "")
    /\ UNCHANGED <<watcher_rx, mining_status, current_attempt_game, has_live_stream,
                   transient_error_count, failed_game_attempts, watching_channel,
                   priority_games, drops_subscribed_selected, excluded_games, all_campaigns,
                   campaigns, events, channel, loops, now,
                   auth, gql, login_code, login_rx, auth_json>>

\* a logout that stops the watch first
LogoutStoppingWatch ==
    /\ watcher_rx' = None
    /\ has_live_stream' = FALSE
    /\ mining_status' = None
    /\ current_attempt_game' = None
    /\ state' = "Idle"
    /\ channel' = <<>>

\* what logout leaves as it is, state.rs:51-67: the handle of the Mining
\* Loop, the status on display and the state among others
LogoutSession ==
    UNCHANGED <<watcher_rx, has_live_stream, mining_status, current_attempt_game, state, channel>>

\* the 'l' key with a session, main.rs:350-354: logout (state.rs:51-67) and
\* the removal of auth.json
LogoutKey ==
    /\ events = <<>>
    /\ login_key_open(login_code, login_tasks)
    /\ is_logged_in
    /\ auth' = None
    /\ gql' = None
    /\ campaigns' = <<>>
    /\ all_campaigns' = <<>>
    /\ failed_game_attempts' = [g \in Games |-> None]
    /\ watching_channel' = None
    /\ login_code' = None
    /\ auth_json' = None
    /\ LogoutSession
    /\ last_op' = Op("logout", {}, "", "")
    /\ UNCHANGED <<transient_error_count, priority_games, drops_subscribed_selected,
                   excluded_games, events, loops, now, login_rx, login_tasks>>

\* the handling of the queued login messages by one tick, main.rs:179-200,
\* on s = the state, session, client, user code and stored session
RECURSIVE handle_login_messages(_, _)
handle_login_messages(msgs, s) ==
    IF msgs = <<>> THEN s
    ELSE LET m == Head(msgs)
             t == CASE m.type = "CodeReady" -> [s EXCEPT !.login_code = Some("code")]
                    [] m.type = "Success" ->
                         [s EXCEPT !.auth_json = Some("new"), !.auth = Some("new"),
                                   !.gql = Some(GqlClient("device")), !.login_code = None,
                                   !.state = "AllCampaignsFetch"]
                    [] OTHER -> [s EXCEPT !.login_code = None, !.state = "Idle"]
         IN  handle_login_messages(Tail(msgs), t)

LoginMessages ==
    /\ events = <<>>
    /\ login_rx # <<>>
    /\ LET s == handle_login_messages(login_rx,
                    [state |-> state, auth |-> auth, gql |-> gql, login_code |-> login_code,
                     auth_json |-> auth_json])
       IN  /\ state' = s.state
           /\ auth' = s.auth
           /\ gql' = s.gql
           /\ login_code' = s.login_code
           /\ auth_json' = s.auth_json
    /\ login_rx' = <<>>
    /\ last_op' = Op("login_messages", {}, "", "")
    /\ UNCHANGED <<watcher_rx, mining_status, current_attempt_game, has_live_stream,
                   transient_error_count, failed_game_attempts, watching_channel,
                   priority_games, drops_subscribed_selected, excluded_games, all_campaigns,
                   campaigns, events, channel, loops, now, login_tasks>>

\* the platform P, with init_cookies finding what C lists
WithCookies(P, C) == [P EXCEPT !.cookies = C]

\* the platform P, answering the requests of a login task as L lists
WithLogin(P, L) == [P EXCEPT !.login = L]

\* The login flow alone: the platform answers the home page request, the
\* device-code request, the token requests and the validation in every way;
\* the campaign queries of the refresh after a login are answered.
LoginPlatform ==
    WithLogin(Platform({}, {}, {}, {}, {},
                       {a \in FetchAnswers(AllCampaignsResponses) : a.ok},
                       {a \in FetchAnswers(InventoryResponses) : a.ok}, {<<>>}),
              [init |-> BOOLEAN, device |-> DeviceCodeResponses, poll |-> PollResponses,
               validate |-> BOOLEAN, max_tasks |-> MaxLoginTasks])

\* One game, tokens granted, a stream always live, a drop in progress,
\* campaign data delivered; init_cookies finds a cookie, no cookie or no home
\* page; a login succeeds at its first token request or fails there.
SessionPlatform ==
    WithLogin(WithCookies(Platform({"both"}, {InProgress("currentUser")}, {}, {}, {"valid"},
                                   {a \in FetchAnswers(AllCampaignsResponses) : a.ok},
                                   {a \in FetchAnswers(InventoryResponses) : a.ok}, {<<>>}),
                          {"set_cookie", "no_cookie", "err"}),
              [init |-> {TRUE}, device |-> {[ok |-> TRUE, interval |-> 5, expires_in |-> 5]},
               poll |-> {r \in PollResponses : ~r.err /\ (r.parsable \/ r.status = 500)},
               validate |-> {TRUE}, max_tasks |-> 1])

\* the program started without a session (App::new_logged_out): no stored
\* session, or one that could not be loaded
LoggedOut ==
    /\ auth = None
    /\ gql = None
    /\ login_code = None
    /\ login_rx = <<>>
    /\ login_tasks = <<>>
    /\ auth_json \in {None, Some("unreadable")}

\* App::init_default (mod.rs:78-115), with one game in the priority list
InitOneGame ==
    /\ watcher_rx = None
    /\ mining_status = None
    /\ current_attempt_game = None
    /\ has_live_stream = FALSE
    /\ transient_error_count = 0
    /\ failed_game_attempts = [g \in Games |-> None]
    /\ watching_channel = None
    /\ priority_games = <<"G1">>
    /\ excluded_games = {}
    /\ drops_subscribed_selected = 0
    /\ all_campaigns = <<>>
    /\ campaigns = <<>>
    /\ events = <<>>
    /\ channel = <<>>
    /\ loops = [id \in LoopIds |-> FreeLoop]
    /\ now = 0
    /\ last_op = Other

\* run_app before its main loop, main.rs:47-76: with the stored session and
\* the first refresh due, or logged out and idle
InitSession ==
    /\ \/ state = "AllCampaignsFetch" /\ LoggedIn(GqlClient("device"))
       \/ state = "Idle" /\ LoggedOut
    /\ InitOneGame

NextLogin ==
    \/ LoginKey(LoginPlatform)
    \/ LogoutKey
    \/ LoginInit(LoginPlatform)
    \/ RequestDeviceCode(LoginPlatform)
    \/ PollForToken(LoginPlatform)
    \/ ValidateToken(LoginPlatform)
    \/ LoginMessages
    \/ FetchAllCampaigns(LoginPlatform)
    \/ FetchInventory(LoginPlatform)

SpecLogin == InitSession /\ [][NextLogin]_vars

NextSession ==
    \/ LoginKey(SessionPlatform)
    \/ LogoutKey
    \/ LoginInit(SessionPlatform)
    \/ RequestDeviceCode(SessionPlatform)
    \/ PollForToken(SessionPlatform)
    \/ ValidateToken(SessionPlatform)
    \/ LoginMessages
    \/ TryAutostart(SessionPlatform)
    \/ CheckPrioritySwitch(SessionPlatform)
    \/ ClaimUnclaimedDrops(SessionPlatform)
    \/ TickDrain
    \/ HandleWorkerEvent
    \/ RefreshTimer(SessionPlatform)
    \/ FetchAllCampaigns(SessionPlatform)
    \/ FetchInventory(SessionPlatform)
    \/ \E id \in LoopIds : L_Token(SessionPlatform, id)
    \/ \E id \in LoopIds : L_Probe(SessionPlatform, id)

SpecSession == InitSession /\ [][NextSession]_vars

-----------------------------------------------------------------------------
(* Properties                                                               *)

\* the loops that are spawned and have not returned
RunningLoops == {id \in LoopIds : running(loops[id])}

\* C1: at every reachable state at most one Mining Loop task is running
\* (spawned and not yet returned), loops the Scheduler has stopped and that
\* have not yet observed the stop included.
C1_AtMostOneRunningLoop == Cardinality(RunningLoops) <= 1

\* C2: a Mining Loop that the Scheduler has stopped returns within one further
\* iteration, whatever the platform answers: it never completes a second
\* iteration after the stop.
C2_StoppedLoopReturns ==
    \A id \in LoopIds : running(loops[id]) /\ ~connected(id) => loops[id].stopped_iters <= 1

\* a step of the Scheduler that handles the event of type t at the head of the
\* drained batch
Handled(t) == events # <<>> /\ Head(events).type = t /\ events' = Tail(events)

\* a call of try_autostart that got past its "Already watching" test
AutostartSelection == last_op'.op = "try_autostart" /\ last_op'.result # "Already watching"

\* a call of try_autostart that started a loop on game g
AutostartStarted(g) ==
    last_op'.op = "try_autostart" /\ last_op'.result = "Started" /\ last_op'.game = g

\* C3: after the Scheduler handles a FatalError from a loop on game X, X is in
\* failed_game_attempts with the current time; no autostart call made less
\* than 300 s after the recorded time starts a loop on X; and the first
\* autostart selection made 300 s or more after it removes the entry.
C3_CooldownAfterFatal ==
    [][ /\ Handled("FatalError") =>
              failed_game_attempts'[Head(events).game_name] = Some(now)
        /\ \A g \in Games :
              /\ IsSome(failed_game_attempts[g])
              /\ now - Unwrap(failed_game_attempts[g]) < COOLDOWN_SECS
              => ~AutostartStarted(g)
        /\ \A g \in Games :
              /\ AutostartSelection
              /\ IsSome(failed_game_attempts[g])
              /\ now - Unwrap(failed_game_attempts[g]) >= COOLDOWN_SECS
              => failed_game_attempts'[g] = None ]_vars

\* C10: handling a FatalError records the game of the loop that emitted it in
\* failed_game_attempts, resets transient_error_count to 0 and stops the loop
\* (handle cleared, has_live_stream false, state Idle).
C10_FatalErrorHandling ==
    [][ Handled("FatalError") =>
            /\ IsSome(failed_game_attempts'[Head(events).game_name])
            /\ transient_error_count' = 0
            /\ watcher_rx' = None
            /\ ~has_live_stream'
            /\ state' = "Idle" ]_vars

\* game g qualifies for autostart when the directory answers carry a valid
\* edge for the games in valid: it is not on cooldown, an active campaign of g
\* in all_campaigns or campaigns has progress < 1 and an unclaimed drop, and
\* g is in valid
Qualifies(g, valid) ==
    /\ ~(IsSome(failed_game_attempts[g]) /\ now - Unwrap(failed_game_attempts[g]) < COOLDOWN_SECS)
    /\ eligible_in(all_campaigns \o campaigns, g, now)
    /\ g \in valid

\* the places of the priority list whose game qualifies
QualifyingPlaces(valid) ==
    {i \in 1 .. Len(priority_games) : Qualifies(priority_games[i], valid)}

\* C4: when no Mining Loop is running, autostart starts a loop on the first
\* game of priority_games that qualifies, and on no later one; when no game
\* qualifies it starts no loop and fails with NoSuitableStreams.
C4_AutostartSelection ==
    [][ last_op'.op = "try_autostart" /\ RunningLoops = {} =>
            IF QualifyingPlaces(last_op'.valid) = {}
            THEN /\ last_op'.result = "No suitable streams found"
                 /\ loops' = loops
                 /\ watcher_rx' = None
            ELSE /\ last_op'.result = "Started"
                 /\ last_op'.game = priority_games[Min(QualifyingPlaces(last_op'.valid))]
                 /\ \E id \in LoopIds :
                        /\ loops[id].pc = "free"
                        /\ loops'[id] = NewLoop(last_op'.game)
                        /\ watcher_rx' = Some(id) ]_vars

\* game g has an active campaign with progress < 1 and an unclaimed drop
EligibleGame(g) == eligible_in(all_campaigns \o campaigns, g, now)

\* game g failed fatally less than 300 s ago
OnCooldown(g) ==
    IsSome(failed_game_attempts[g]) /\ now - Unwrap(failed_game_attempts[g]) < COOLDOWN_SECS

\* the Scheduler is watching a loop on game g
Watched(g) ==
    /\ IsSome(watcher_rx)
    /\ has_live_stream
    /\ IsSome(mining_status)
    /\ Unwrap(mining_status).game_name = g

\* the place of game g in priority_games (0: not in the list)
Place(g) == position({i \in 1 .. Len(priority_games) : priority_games[i] = g})

\* the pairs of places a < b of priority_games whose games both have an
\* active campaign with unclaimed drops
EligiblePairs ==
    {p \in (1 .. Len(priority_games)) \X (1 .. Len(priority_games)) :
        /\ p[1] < p[2]
        /\ EligibleGame(priority_games[p[1]])
        /\ EligibleGame(priority_games[p[2]])}

\* a pre-emption check made while game g is watched
CheckWhileWatching(g) == last_op'.op = "check_priority_switch" /\ Watched(g)

\* an autostart call that directly follows the pre-emption check that stopped
\* the loop on game g
AutostartAfterSwitchFrom(g) ==
    /\ last_op.op = "check_priority_switch"
    /\ last_op.result = "switched"
    /\ last_op.game = g
    /\ last_op'.op = "try_autostart"

\* a pre-emption check, or an autostart call that directly follows one
SwitchOrFollowingAutostart ==
    \/ last_op'.op = "check_priority_switch"
    \/ last_op.op = "check_priority_switch" /\ last_op'.op = "try_autostart"

C6_ExcludedNeverStarted ==
    \A id \in LoopIds : loops[id].pc # "free" => loops[id].game_name \notin excluded_games

\* an answer to a drop check that shows an unclaimed drop with required > 0
ShowsUnclaimedDrop(r) == has_context(r) /\ ~r.is_claimed /\ r.required > 0

\* the events a step outcome publishes, by type
Published(out) == [i \in 1 .. Len(out[2]) |-> out[2][i].type]

\* C7: for a loop the Scheduler listens to,
\*  - a probe reporting an unclaimed drop with current >= required > 0 and a
\*    drop instance id i makes the loop call the claim operation with i;
\*  - a successful claim makes it publish Claimed(name) and go on to one
\*    follow-up probe;
\*  - a follow-up probe showing no unclaimed drop with required > 0 makes it
\*    publish CampaignComplete(game) and return, and one showing such a drop
\*    makes it keep running without publishing CampaignComplete.
C7_ClaimSequence ==
    \A id \in LoopIds :
        LET l == loops[id] IN
        connected(id) =>
        /\ l.pc = "probe" =>
              \A r \in ClaimPlatform.probe :
                  /\ ShowsUnclaimedDrop(r)
                  /\ r.current >= r.required
                  /\ r.instance_id \notin {"absent", "null"}
                  => LET out == ProbeStep(id, l, r)
                     IN  out[1].pc = "claim" /\ out[1].instance_id = r.instance_id
        /\ l.pc = "claim" =>
              LET out == ClaimStep(id, l, TRUE)
              IN  /\ out[2] = <<MkEvent("Claimed", l.game_name, l.name)>>
                  /\ out[1].pc = "followup"
        /\ l.pc = "followup" =>
              \A r \in ClaimPlatform.followup :
                  LET out == FollowupStep(id, l, r)
                  IN  IF ShowsUnclaimedDrop(r)
                      THEN running(out[1]) /\ Published(out) = <<>>
                      ELSE /\ ~running(out[1])
                           /\ out[2] = <<MkEvent("CampaignComplete", l.game_name, "")>>

\* the events of the watched loop that the Scheduler has not handled yet,
\* oldest first: the drained batch, then the channel
pending == events \o channel

IsPrefix(p, q) == Len(p) <= Len(q) /\ SubSeq(q, 1, Len(p)) = p

\* C8: the Scheduler applies the events of a loop in the order the loop
\* published them (a loop step only appends to the pending events; any other
\* step leaves them alone, removes the oldest to handle it, or drops the
\* newest with the channel), CampaignComplete is the last event its loop
\* publishes, and a loop that has returned takes no further step.
C8_EventOrder ==
    [][ /\ IF loops' # loops
           THEN IsPrefix(pending, pending')
           ELSE \E a \in 1 .. 2, b \in 0 .. Len(pending) : pending' = SubSeq(pending, a, b)
        /\ \A i \in 1 .. Len(pending') :
              pending'[i].type = "CampaignComplete" => i = Len(pending')
        /\ \A id \in LoopIds :
              loops[id].pc = "done" => loops'[id] = loops[id] ]_vars

\* C8 witness: the Scheduler has applied the Status of a loop and is about to
\* handle the CampaignComplete the loop published after it, with which the
\* loop returned.
C8_Witness ==
    /\ Len(events) = 1
    /\ events[1].type = "CampaignComplete"
    /\ IsSome(mining_status)
    /\ \E id \in LoopIds : connected(id) /\ loops[id].completed /\ loops[id].pc = "done"

\* the steps in which the Scheduler calls stop_watching: the handling of a
\* CampaignComplete, of a FatalError, of the TransientError that reaches the
\* limit, and the pre-emption check that finds a higher-priority game
StopsWatching ==
    \/ Handled("CampaignComplete")
    \/ Handled("FatalError")
    \/ Handled("TransientError") /\ transient_error_count + 1 >= TRANSIENT_LIMIT
    \/ last_op'.op = "check_priority_switch" /\ last_op'.result = "switched"

\* C9: stop_watching, from any state, leaves the loop handle, the channel
\* reference, mining_status and current_attempt_game empty, has_live_stream
\* false and the state Idle, and changes neither the campaign data nor the
\* priority list; the handling of CampaignComplete has exactly this effect,
\* the cooldown table and the transient error count included in what it
\* leaves unchanged.
C9_StopWatchingEffect ==
    [][ /\ StopsWatching =>
              /\ watcher_rx' = None
              /\ watching_channel' = None
              /\ mining_status' = None
              /\ current_attempt_game' = None
              /\ has_live_stream' = FALSE
              /\ state' = "Idle"
              /\ UNCHANGED <<all_campaigns, campaigns, priority_games, excluded_games>>
        /\ Handled("CampaignComplete") =>
              UNCHANGED <<failed_game_attempts, transient_error_count, loops, now>>
        /\ last_op'.op = "check_priority_switch" /\ last_op'.result = "switched" =>
              UNCHANGED <<failed_game_attempts, transient_error_count, loops, now>> ]_vars

\* C9 witness: the Scheduler has handled the CampaignComplete of a loop: no
\* loop is left, no game ever failed, and everything stop_watching resets is
\* reset.
C9_Witness ==
    /\ events = <<>>
    /\ state = "Idle"
    /\ watcher_rx = None
    /\ mining_status = None
    /\ current_attempt_game = None
    /\ ~has_live_stream
    /\ all_campaigns # <<>>
    /\ \A g \in Games : failed_game_attempts[g] = None
    /\ \E id \in LoopIds : loops[id].completed
    /\ \A id \in LoopIds : ~running(loops[id])

\* a step of the Scheduler that handles the next event of the drained batch
HandledAny == events # <<>> /\ events' = Tail(events)

\* C11: each handled TransientError increments transient_error_count by one;
\* when the count reaches 10 the Scheduler stops the loop and resets the count
\* to 0; below 10 the loop is left as it is; a handled Status resets the count
\* to 0; transient_error_count < 10 after every handled event.
C11_TransientErrorCount ==
    [][ /\ Handled("TransientError") =>
              IF transient_error_count + 1 = TRANSIENT_LIMIT
              THEN /\ transient_error_count' = 0
                   /\ watcher_rx' = None
                   /\ ~has_live_stream'
                   /\ state' = "Idle"
              ELSE /\ transient_error_count' = transient_error_count + 1
                   /\ UNCHANGED <<watcher_rx, state, has_live_stream, mining_status,
                                  current_attempt_game, watching_channel, channel, loops>>
        /\ Handled("Status") => transient_error_count' = 0
        /\ HandledAny => transient_error_count' < TRANSIENT_LIMIT ]_vars

\* C11 witness: the tenth TransientError in a row has been handled: the loop
\* it came from is stopped without any game having failed fatally, and the
\* count is back to 0.
C11_Witness ==
    /\ events = <<>>
    /\ transient_error_count = 0
    /\ watcher_rx = None
    /\ state = "Idle"
    /\ \A g \in Games : failed_game_attempts[g] = None
    /\ \E id \in LoopIds : loops[id].pc # "free" /\ ~loops[id].completed
    /\ \A id \in LoopIds : ~loops[id].completed

\* the places <<campaign, drop>> of the list cs
DropPlaces(cs) ==
    {p \in (1 .. Len(cs)) \X (1 .. 2) : p[2] <= Len(cs[p[1]].time_based_drops)}

DropAt(cs, p) == cs[p[1]].time_based_drops[p[2]]

\* C12: handling Status(s) for game G sets current_minutes_watched of the drop
\* of G in all_campaigns named s.drop_name to s.minutes_watched, whichever of
\* G's campaigns holds it; the drop's extra counters are reset to 0 if
\* s.minutes_watched >= its local current_minutes before the update and are
\* left unchanged otherwise.
C12_StatusReconcile ==
    [][ Handled("Status") =>
          \A p \in DropPlaces(all_campaigns) :
              LET s == Head(events)
                  d == DropAt(all_campaigns, p)
                  e == DropAt(all_campaigns', p)
              IN  all_campaigns[p[1]].game = s.game_name /\ d.name = s.name =>
                      /\ IsSome(e.self_info)
                      /\ Unwrap(e.self_info).current_minutes_watched = s.minutes_watched
                      /\ IF s.minutes_watched * SECONDS_PER_MINUTE >= current_seconds(d)
                         THEN e.extra_minutes = 0 /\ e.extra_seconds = 0
                         ELSE e.extra_minutes = d.extra_minutes
                              /\ e.extra_seconds = d.extra_seconds ]_vars

\* the events appended to the channel by the step
Sent == SubSeq(channel', Len(channel) + 1, Len(channel'))

\* the step is a drop check of loop id
ProbeStepOf(id) == loops[id].pc = "probe" /\ loops'[id] # loops[id]

\* the names of the Claimed events the step publishes
ClaimedNamesSent == {Sent[i].name : i \in {j \in 1 .. Len(Sent) : Sent[j].type = "Claimed"}}

\* C13: the recovery path publishes Claimed(name) at most once for a drop:
\* a drop check never publishes Claimed for a name the loop has already
\* published a Claimed event for, whether by recovery or after its own
\* successful claim.
C13_ClaimedOnce ==
    [][ \A id \in LoopIds :
            ProbeStepOf(id) => ClaimedNamesSent \cap loops[id].claimed_sent = {} ]_vars

\* What the recovery path does guarantee: a drop check publishes at most one
\* Claimed event, and only for a drop reported claimed whose name differs from
\* last_claimed_drop when has_mined_once holds; the name then becomes
\* last_claimed_drop, as does the name of a drop the loop claims itself.
RecoveryLastClaimedRule ==
    [][ \A id \in LoopIds :
            /\ ProbeStepOf(id) =>
                  /\ Cardinality({j \in 1 .. Len(Sent) : Sent[j].type = "Claimed"}) <= 1
                  /\ \A n \in ClaimedNamesSent :
                        /\ loops[id].has_mined_once
                        /\ loops[id].last_claimed_drop # Some(n)
                        /\ loops'[id].last_claimed_drop = Some(n)
            /\ loops[id].pc = "claim" /\ loops'[id].pc = "followup" =>
                  loops'[id].last_claimed_drop = Some(loops[id].name) ]_vars

\* a background refresh made while watching (refresh_data_background): the
\* only step in state Watching that is no step of a loop, no tick and no
\* timer bump
BackgroundRefresh ==
    /\ state = "Watching"
    /\ events = <<>>
    /\ last_op' = Other
    /\ UNCHANGED <<loops, channel>>

\* C14: for every refresh of all_campaigns (the ingest of the dashboard list
\* followed by the inventory and details merge) and every drop id present in
\* all_campaigns, in the campaign of the same id, both before the refresh and
\* after it, the drop's extra_minutes and extra_seconds are the same after
\* the refresh as before it.
C14_MergePreservation ==
    [][ BackgroundRefresh =>
          \A p \in DropPlaces(all_campaigns), q \in DropPlaces(all_campaigns') :
              /\ all_campaigns[p[1]].id = all_campaigns'[q[1]].id
              /\ DropAt(all_campaigns, p).id = DropAt(all_campaigns', q).id
              => /\ DropAt(all_campaigns', q).extra_minutes = DropAt(all_campaigns, p).extra_minutes
                 /\ DropAt(all_campaigns', q).extra_seconds = DropAt(all_campaigns, p).extra_seconds
      ]_vars

\* every drop of the two campaign lists
AllDrops(all, inv) ==
    {DropAt(all, p) : p \in DropPlaces(all)} \cup {DropAt(inv, p) : p \in DropPlaces(inv)}

\* the extra counters of drop d are within their ranges
ExtraInRange(d) ==
    /\ 0 <= d.extra_minutes /\ d.extra_minutes <= MAX_EXTRA_MINUTES
    /\ 0 <= d.extra_seconds /\ d.extra_seconds < SECONDS_PER_MINUTE

\* the counters of d are in range and stay so under either bump, which
\* changes nothing once extra_minutes is at the cap
Clamped(d) ==
    /\ ExtraInRange(d)
    /\ ExtraInRange(bump_extra_second(d))
    /\ ExtraInRange(bump_extra_minute(d))
    /\ d.extra_minutes = MAX_EXTRA_MINUTES =>
           bump_extra_second(d) = d /\ bump_extra_minute(d) = d

\* the step is a 1-second timer bump
TimerBump == last_op'.op = "bump_second" /\ UNCHANGED <<events, loops, channel, state>>

\* C15: every drop in all_campaigns and campaigns has
\* 0 <= extra_minutes <= MAX_EXTRA_MINUTES and 0 <= extra_seconds < 60 before
\* and after every step (timer bumps, Status reconciliations, refresh merges),
\* a minute bump or second bump of any such drop keeps the ranges, and once
\* extra_minutes = MAX_EXTRA_MINUTES a bump changes neither counter.
C15_ExtraClamp ==
    [][ /\ \A d \in AllDrops(all_campaigns, campaigns) : Clamped(d)
        /\ \A d \in AllDrops(all_campaigns', campaigns') : Clamped(d)
        /\ TimerBump =>
              \A p \in DropPlaces(all_campaigns) :
                  DropAt(all_campaigns, p).extra_minutes = MAX_EXTRA_MINUTES =>
                      DropAt(all_campaigns', p) = DropAt(all_campaigns, p) ]_vars

\* the timer has carried a drop of campaigns from 14:59 to the cap and has
\* run again on the capped drops of both lists
C15_Witness ==
    /\ last_op.op = "bump_second"
    /\ \E p \in DropPlaces(all_campaigns) :
           DropAt(all_campaigns, p).extra_minutes = MAX_EXTRA_MINUTES
    /\ \E p \in DropPlaces(campaigns) :
           /\ DropAt(campaigns, p).extra_minutes = MAX_EXTRA_MINUTES
           /\ DropAt(campaigns, p).extra_seconds = 0

\* the minutes the server last reported for drop d
server_minutes(d) ==
    IF IsSome(d.self_info) THEN Unwrap(d.self_info).current_minutes_watched ELSE 0

\* no drop of list cs has a lower current_minutes in list ds, at the same place
NoDropLower(cs, ds) ==
    \A p \in DropPlaces(cs) : current_seconds(DropAt(ds, p)) >= current_seconds(DropAt(cs, p))

\* C16: current_minutes (server minutes + extra_minutes + extra_seconds/60) of
\* a drop does not decrease across a 1-second bump, nor across the handling
\* of a Status event unless the drop's server minutes decrease in it.
C16_MonotonicLocalCounter ==
    [][ /\ TimerBump => /\ NoDropLower(all_campaigns, all_campaigns')
                        /\ NoDropLower(campaigns, campaigns')
        /\ Handled("Status") =>
              /\ campaigns' = campaigns
              /\ \A p \in DropPlaces(all_campaigns) :
                    LET d == DropAt(all_campaigns, p)
                        e == DropAt(all_campaigns', p)
                    IN  server_minutes(e) >= server_minutes(d) =>
                            current_seconds(e) >= current_seconds(d) ]_vars

\* a Status of 2 minutes has been synced into a drop of 1 server minute whose
\* local time was ahead of it: the extra time is kept, and the timer has run
\* on the drop since (no refresh has delivered the 2 minutes: the inventory
\* is empty)
C16_Witness ==
    /\ campaigns = <<>>
    /\ events = <<>>
    /\ last_op.op = "bump_second"
    /\ IsSome(mining_status) /\ Unwrap(mining_status).minutes_watched = 2
    /\ \E p \in DropPlaces(all_campaigns) :
           /\ server_minutes(DropAt(all_campaigns, p)) = 2
           /\ DropAt(all_campaigns, p).extra_minutes = MAX_EXTRA_MINUTES

\* the drop names an event can carry
EventDropNames == {"d1", "d2", ACTIVE_DROP}

\* list ds is list cs after mark_drop_claimed(g, n): the drops of game g named
\* n carry a self-info with is_claimed set and no fewer server minutes, and
\* are otherwise as before; every other drop and every campaign field is as
\* before
MarkedFrom(cs, ds, g, n) ==
    /\ Len(ds) = Len(cs)
    /\ \A i \in 1 .. Len(cs) :
          /\ Len(ds[i].time_based_drops) = Len(cs[i].time_based_drops)
          /\ [ds[i] EXCEPT !.time_based_drops = <<>>] = [cs[i] EXCEPT !.time_based_drops = <<>>]
    /\ \A p \in DropPlaces(cs) :
          LET d == DropAt(cs, p)
              e == DropAt(ds, p)
          IN  IF cs[p[1]].game = g /\ d.name = n
              THEN /\ IsSome(e.self_info)
                   /\ Unwrap(e.self_info).is_claimed
                   /\ server_minutes(e) >= server_minutes(d)
                   /\ [e EXCEPT !.self_info = None] = [d EXCEPT !.self_info = None]
                   /\ IsSome(d.self_info) =>
                          e.self_info = Some([Unwrap(d.self_info) EXCEPT !.is_claimed = TRUE])
              ELSE e = d

\* mark_drop_claimed(g, n) on list cs meets MarkedFrom and is idempotent
MarkDropClaimedOn(cs, g, n) ==
    LET once == mark_claimed_in(cs, g, n)
    IN  /\ MarkedFrom(cs, once, g, n)
        /\ mark_claimed_in(once, g, n) = once

\* C17: mark_drop_claimed(game, drop) is idempotent; afterwards the named drop
\* of that game has self.is_claimed = true in both all_campaigns and campaigns
\* (a self-info is created when absent), its current_minutes_watched is not
\* lower than before, and no drop of another game or with another name is
\* changed. Checked for every game and name on the data of every state, and
\* on the step that handles a Claimed event.
C17_MarkDropClaimed ==
    [][ /\ \A g \in Games, n \in EventDropNames :
              /\ MarkDropClaimedOn(all_campaigns, g, n)
              /\ MarkDropClaimedOn(campaigns, g, n)
        /\ Handled("Claimed") /\ IsSome(mining_status) =>
              LET g == Unwrap(mining_status).game_name
                  n == Head(events).name
              IN  /\ MarkedFrom(all_campaigns, all_campaigns', g, n)
                  /\ MarkedFrom(campaigns, campaigns', g, n)
                  /\ mark_claimed_in(all_campaigns', g, n) = all_campaigns'
                  /\ mark_claimed_in(campaigns', g, n) = campaigns' ]_vars

\* a Claimed event has been handled: a drop of all_campaigns that had no
\* self-info carries the one mark_drop_claimed creates, and a drop of
\* campaigns that had one is flagged
C17_Witness ==
    /\ \E p \in DropPlaces(all_campaigns) :
           LET d == DropAt(all_campaigns, p)
           IN  d.self_info = Some(DropSelfInfo(d.required_minutes, TRUE, None))
    /\ \E p \in DropPlaces(campaigns) :
           LET d == DropAt(campaigns, p)
           IN  /\ IsSome(d.self_info)
               /\ Unwrap(d.self_info).is_claimed
               /\ Unwrap(d.self_info).current_minutes_watched < d.required_minutes

\* the list holds no game twice
NoDuplicates(pg) == \A i, j \in 1 .. Len(pg) : pg[i] = pg[j] => i = j

\* list qs is list ps with two adjacent entries exchanged
AdjacentSwap(ps, qs) ==
    \E i \in 1 .. Len(ps) - 1 : qs = [ps EXCEPT ![i] = ps[i + 1], ![i + 1] = ps[i]]

\* the step is a move of the selected subscribed game
MoveStep == last_op'.op \in {"move_up", "move_down"}

\* C18: from a priority_games list without duplicates, toggle_game_subscription,
\* add_priority_game, move_subscribed_game_up and move_subscribed_game_down
\* lead to a list without duplicates; a move never indexes out of range,
\* leaves the list as it is or exchanges two adjacent entries, and returns
\* true exactly when the order changed; add_priority_game puts a new game at
\* index 0, before the entries there were.
C18_PriorityList ==
    [][ NoDuplicates(priority_games) =>
          /\ NoDuplicates(priority_games')
          /\ MoveStep =>
                /\ last_op'.result \in {"true", "false"}
                /\ priority_games' = priority_games \/ AdjacentSwap(priority_games, priority_games')
                /\ last_op'.result = "true" <=> priority_games' # priority_games
          /\ last_op'.op = "add" /\ last_op'.game \notin subscribed(priority_games) =>
                priority_games' = <<last_op'.game>> \o priority_games ]_vars

\* the first game of a list of three has been moved down to the end, one
\* step at a time
C18_Witness ==
    /\ last_op = Op("move_down", {}, "true", "")
    /\ Len(priority_games) = 3
    /\ drops_subscribed_selected = 2
    /\ NoDuplicates(priority_games)

\* the campaigns of the inventory that are active and whose game is not excluded
ActiveNotExcluded ==
    {campaigns[i] : i \in {j \in 1 .. Len(campaigns) :
                              /\ campaigns[j].status = "ACTIVE"
                              /\ campaigns[j].starts_at <= now /\ now <= campaigns[j].ends_at
                              /\ campaigns[j].game \notin excluded_games}}

\* what prioritized_campaigns returns in the state
Prioritized == prioritized_campaigns(campaigns, priority_games, excluded_games, now)

\* C19: prioritized_campaigns returns exactly the campaigns that are active and
\* whose game is not in excluded_games, each once, ordered so that the
\* campaigns of games in priority_games come first, in the order of their
\* games in that list, and all other campaigns follow, ordered by end time,
\* earliest first.
C19_PrioritizedCampaigns ==
    /\ {Prioritized[i] : i \in 1 .. Len(Prioritized)} = ActiveNotExcluded
    /\ Len(Prioritized) = Cardinality(ActiveNotExcluded)
    /\ \A i, j \in 1 .. Len(Prioritized) :
          i < j =>
            LET a == Prioritized[i]
                b == Prioritized[j]
            IN  IF Place(a.game) # 0
                THEN Place(b.game) # 0 => Place(a.game) <= Place(b.game)
                ELSE Place(b.game) = 0 /\ a.ends_at <= b.ends_at

\* after a move in the priority list the inventory holds an expired campaign
\* and one of an excluded game, and the active ones are returned in another
\* order than the inventory's: two campaigns of priority games, then a
\* campaign of a game that is not in the list
C19_Witness ==
    /\ last_op.op \in {"move_up", "move_down"} /\ last_op.result = "true"
    /\ excluded_games # {}
    /\ Len(Prioritized) >= 3
    /\ Len(Prioritized) < Len(campaigns)
    /\ Prioritized # active_campaigns(campaigns, excluded_games, now)
    /\ Place(Prioritized[1].game) # 0
    /\ Place(Prioritized[2].game) # 0
    /\ Place(Prioritized[Len(Prioritized)].game) = 0

\* the drop's self-info says it is claimed
SelfClaimed(d) == IF IsSome(d.self_info) THEN Unwrap(d.self_info).is_claimed ELSE FALSE

\* the sum of the per-drop progress in which a claimed drop counts 1
RECURSIVE TotalCountingClaimed(_)
TotalCountingClaimed(ds) ==
    IF ds = <<>> THEN <<0, 1>>
    ELSE frac_add(IF SelfClaimed(Head(ds)) THEN <<1, 1>> ELSE progress(Head(ds)),
                  TotalCountingClaimed(Tail(ds)))

\* campaign_progress of c is that average, and is 1 when every drop is claimed
ProgressCountsClaimed(c) ==
    LET ds == c.time_based_drops
        t == TotalCountingClaimed(ds)
    IN  Len(ds) > 0 =>
          /\ frac_eq(campaign_progress(c), <<t[1], t[2] * Len(ds)>>)
          /\ (\A i \in 1 .. Len(ds) : SelfClaimed(ds[i])) => frac_eq(campaign_progress(c), <<1, 1>>)

\* C20: campaign_progress of every campaign of all_campaigns and campaigns is
\* the average of the per-drop progress over all its drops in which every
\* drop with self.is_claimed = true contributes 1.0 regardless of its watched
\* minutes; a campaign whose drops are all claimed has campaign_progress = 1.
C20_ClaimedCountsFull ==
    /\ \A i \in 1 .. Len(all_campaigns) : ProgressCountsClaimed(all_campaigns[i])
    /\ \A i \in 1 .. Len(campaigns) : ProgressCountsClaimed(campaigns[i])

\* What campaign_progress is: the average of the per-drop progress by watched
\* minutes alone, within 0 and 1, and below 1 exactly when a drop is.
CampaignProgressByMinutes ==
    \A c \in {all_campaigns[i] : i \in 1 .. Len(all_campaigns)}
             \cup {campaigns[i] : i \in 1 .. Len(campaigns)} :
        LET cp == campaign_progress(c)
        IN  /\ 0 <= cp[1] /\ cp[1] <= cp[2]
            /\ campaign_progress_lt_1(c) <=> cp[1] < cp[2]

\* the step is a step of the running loop id
StepOfLoop(id) == running(loops[id]) /\ loops'[id] # loops[id]

\* the types of the events the step publishes
SentTypes == {Sent[i].type : i \in 1 .. Len(Sent)}

\* C21: a loop that ends an iteration with no valid probe while has_mined_once
\* is false publishes FatalError and terminates: the step that publishes
\* FatalError is the return of the loop, which makes no further token
\* request, HLS touch, pulse or probe.
C21_FatalErrorTerminates ==
    [][ \A id \in LoopIds :
            StepOfLoop(id) /\ "FatalError" \in SentTypes => ~running(loops'[id]) ]_vars

\* the token requests of one iteration answered by rs in order: the outcome
\* and the number of requests made
RECURSIVE TokenReplay(_, _, _)
TokenReplay(id, l, rs) ==
    LET o == TokenStep(id, l, Head(rs))
    IN  IF o[1].pc = "token" /\ o[1].token_retry > 1 /\ Len(rs) > 1
        THEN LET t == TokenReplay(id, o[1], Tail(rs))
             IN  [out |-> t.out, requests |-> t.requests + 1]
        ELSE [out |-> o, requests |-> 1]

\* the answers to four token requests in a row, were the loop to make them
TokenAnswers == {rs \o <<"both">> : rs \in [1 .. TOKEN_ATTEMPTS -> TokenResponses]}

\* the place of the first answer of rs that carries value and signature
FirstBoth(rs) == position({i \in 1 .. Len(rs) : rs[i] = "both"})

\* the token refresh of loop l, at the start of an iteration, follows the
\* rule: at most TOKEN_ATTEMPTS requests, none after the first answer that
\* carries both value and signature, after which the iteration goes on to the
\* drop check; when every request fails, one TransientError and the next
\* iteration, with no HLS touch, pulse or drop check
TokenRule(id, l) ==
    \A rs \in TokenAnswers :
        LET t == TokenReplay(id, l, rs)
        IN  /\ t.requests <= TOKEN_ATTEMPTS
            /\ FirstBoth(rs) <= TOKEN_ATTEMPTS =>
                  t.requests <= FirstBoth(rs) /\ t.out[1].pc = "probe"
            /\ (\A i \in 1 .. TOKEN_ATTEMPTS : rs[i] = "err") =>
                  /\ t.requests = TOKEN_ATTEMPTS
                  /\ Published(t.out) = <<"TransientError">>
                  /\ t.out[1].pc = "token"

\* the loop is at the start of an iteration
AtIterationStart(l) == l.pc = "token" /\ l.token_retry = 1

\* C22: in each iteration the loop makes at most 3 playback-token requests and
\* stops at the first response carrying both value and signature; if all 3
\* requests of an iteration fail, the loop publishes TransientError and goes
\* to the next iteration without HLS touch, pulse or drop check, also when a
\* token of an earlier iteration is still held.
C22_TokenRefresh ==
    \A id \in LoopIds :
        connected(id) /\ AtIterationStart(loops[id]) => TokenRule(id, loops[id])

\* What holds of every iteration: the rule, for a loop that holds no token
\* value of an earlier iteration.
TokenRefreshWithoutHeldToken ==
    \A id \in LoopIds :
        connected(id) /\ AtIterationStart(loops[id]) /\ ~loops[id].token_val =>
            TokenRule(id, loops[id])

\* answers to the drop check that are no valid probe
InvalidProbes == {r \in ProbeResponses : ~probe_valid(r)}

\* five drop checks in a row without a valid probe: five of a kind, or
\* request errors with one answer of another kind among them
FailedRounds ==
    {[i \in 1 .. PROBE_ATTEMPTS |-> IF i = 2 THEN r ELSE ProbeErr] : r \in InvalidProbes}
    \cup {[i \in 1 .. PROBE_ATTEMPTS |-> r] : r \in InvalidProbes}

\* the outcomes of an iteration of loop l whose first valid probe, the first
\* or the last of the five, is r and that ends with the loop going to its next iteration
\* (r itself, or r followed by a claim that fails)
EndsAfterValidProbe(id, l) ==
    LET direct == {ProbeRound(id, l, [i \in 1 .. k |-> ProbeNoContext] \o <<r>>) :
                      k \in {0, PROBE_ATTEMPTS - 1},
                      r \in {x \in ProbeResponses : probe_valid(x)}}
        failed_claim == {ClaimStep(id, o[1], FALSE) : o \in {x \in direct : x[1].pc = "claim"}}
    IN  {o \in direct \cup failed_claim : o[1].pc = "token"}

\* the rule of C23 for the drop checks of an iteration that loop l is about
\* to make
FailureCountRule(id, l) ==
    /\ l.has_mined_once =>
          \A rs \in FailedRounds :
              LET out == ProbeRound(id, l, rs)
                  n == l.consecutive_loop_failures + 1
              IN  /\ out[1].consecutive_loop_failures = n
                  /\ n = FAILURE_REPORT_AT => Published(out) = <<"TransientError">>
                  /\ n < FAILURE_REPORT_AT => Published(out) = <<>>
    /\ \A out \in EndsAfterValidProbe(id, l) :
          out[1].has_mined_once /\ out[1].consecutive_loop_failures = 0

\* C23: with has_mined_once = true, every iteration without a valid probe
\* increments consecutive_loop_failures; the loop publishes TransientError
\* when the count reaches 5 and publishes nothing while it is below 5; every
\* iteration with a valid probe sets has_mined_once and resets the count to 0.
\* Stated of the drop checks every loop at the start of its retry loop can
\* get, and of the step it takes.
C23_LoopFailureCount ==
    [][ \A id \in LoopIds :
            LET l == loops[id]
                m == loops'[id]
            IN  StepOfLoop(id) /\ connected(id) /\ l.pc = "probe" /\ l.retry = 1 =>
                  /\ FailureCountRule(id, l)
                  /\ m.pc = "token" =>
                        \/ m.has_mined_once /\ m.consecutive_loop_failures = 0
                        \/ /\ l.has_mined_once
                           /\ m.consecutive_loop_failures = l.consecutive_loop_failures + 1
                           /\ IF m.consecutive_loop_failures >= FAILURE_REPORT_AT
                              THEN SentTypes = {"TransientError"}
                              ELSE SentTypes = {}
                        \/ ~l.has_mined_once /\ ~m.has_mined_once /\ SentTypes = {"FatalError"}
      ]_vars

\* a loop that has mined has gone 5 iterations in a row without a valid probe
\* and has published the TransientError, which the Scheduler has not handled
\* yet
C23_Witness ==
    \E id \in LoopIds :
        /\ connected(id)
        /\ loops[id].has_mined_once
        /\ loops[id].consecutive_loop_failures = FAILURE_REPORT_AT
        /\ pending # <<>>
        /\ pending[Len(pending)].type = "TransientError"
        /\ transient_error_count = 0

\* a drop check that reports an unclaimed drop with current >= required > 0
\* and no drop instance id (the key is missing or holds no string)
ReadyWithoutInstance(r) ==
    /\ ShowsUnclaimedDrop(r)
    /\ r.current >= r.required
    /\ r.instance_id \in {"absent", "null"}

\* the drop instance ids the drop checks report
ReportedInstanceIds == {r.instance_id : r \in ClaimPlatform.probe} \ {"absent", "null"}

\* C24: the loop calls the claim operation only with a drop instance id
\* reported by the probe; on a probe that reports an unclaimed drop with
\* current >= required > 0 and no drop instance id, a loop the Scheduler
\* listens to makes no claim call, publishes CampaignComplete(game_name) and
\* returns.
C24_ClaimNeedsInstanceId ==
    \A id \in LoopIds :
        LET l == loops[id] IN
        /\ l.pc = "claim" => l.instance_id \in ReportedInstanceIds
        /\ connected(id) /\ l.pc = "probe" =>
              \A r \in ClaimPlatform.probe :
                  ReadyWithoutInstance(r) =>
                      LET out == ProbeStep(id, l, r)
                      IN  /\ ~running(out[1])
                          /\ out[2][Len(out[2])] = MkEvent("CampaignComplete", l.game_name, "")

\* what the claim branch does guarantee: the claim is called with the drop
\* instance id or, when that key is missing, with the drop's own id, and the
\* loop publishes CampaignComplete and returns when neither is a string
ClaimWithInstanceOrDropId ==
    \A id \in LoopIds :
        LET l == loops[id] IN
        connected(id) /\ l.pc = "probe" =>
            \A r \in ClaimPlatform.probe :
                ShowsUnclaimedDrop(r) /\ r.current >= r.required =>
                    LET out == ProbeStep(id, l, r)
                    IN  IF IsSome(probe_instance_id(r))
                        THEN out[1].pc = "claim" /\ out[1].instance_id = Unwrap(probe_instance_id(r))
                        ELSE /\ ~running(out[1])
                             /\ out[2][Len(out[2])] = MkEvent("CampaignComplete", l.game_name, "")

\* the places of priority_games that precede game g (every place when g is
\* not in the list)
PlacesBefore(g) == IF Place(g) = 0 THEN 1 .. Len(priority_games) ELSE 1 .. (Place(g) - 1)

\* a step of check_priority_switch
PriorityCheck == last_op'.op = "check_priority_switch"

\* the Scheduler's fields and the queue behind its loop handle
scheduler_state == <<app_vars, channel>>

\* C25: check_priority_switch stops the current loop only if some game placed
\* before the mined game in priority_games (any place when the mined game is
\* not in the list) is not on cooldown, has an active campaign with progress
\* < 1 and an unclaimed drop, and its directory query returned a stream; in
\* every other case, a failed directory query included, it returns false and
\* leaves the state of the Scheduler as it was.
C25_PrioritySwitchFrame ==
    [][ PriorityCheck =>
          LET switch == /\ has_live_stream
                        /\ IsSome(mining_status)
                        /\ \E i \in PlacesBefore(Unwrap(mining_status).game_name) :
                               /\ ~OnCooldown(priority_games[i])
                               /\ EligibleGame(priority_games[i])
                               /\ priority_games[i] \in last_op'.valid
          IN  IF switch
              THEN last_op'.result = "switched"
              ELSE last_op'.result # "switched" /\ UNCHANGED scheduler_state ]_vars

\* C25 witness: the check has kept the loop on G1 although G3, placed before
\* it, has an unclaimed drop and a stream, because G3 is on cooldown.
C25_Witness ==
    /\ last_op.op = "check_priority_switch"
    /\ last_op.result = "kept"
    /\ Watched("G1")
    /\ Place("G3") < Place("G1")
    /\ "G3" \in last_op.valid
    /\ EligibleGame("G3")
    /\ OnCooldown("G3")

\* the drop instance ids of the can_claim drops of a campaign list
ClaimableIn(cs) ==
    {Unwrap(Unwrap(d.self_info).drop_instance_id) :
        d \in {DropAt(cs, p) : p \in {q \in DropPlaces(cs) : can_claim(DropAt(cs, q))}}}

\* those of all_campaigns and campaigns
ClaimableIds == ClaimableIn(all_campaigns) \cup ClaimableIn(campaigns)

\* a step of claim_unclaimed_drops
CleanupPass == last_op'.op = "claim_unclaimed_drops"

\* C26: one cleanup pass makes exactly one claim request for each distinct
\* drop instance id among the can_claim drops of all_campaigns and campaigns,
\* also for a drop held by both lists; a failed request neither ends the pass
\* nor makes it return an error.
C26_CleanupClaimsEachOnce ==
    [][ CleanupPass =>
          LET calls == last_op'.calls
          IN  /\ {calls[k].instance_id : k \in 1 .. Len(calls)} = ClaimableIds
              /\ Len(calls) = Cardinality(ClaimableIds)
              /\ last_op'.result = "Ok" ]_vars

\* C26 witness: a pass whose first request failed, for a drop that both lists
\* hold as claimable, has gone on to a second request, which succeeded.
C26_Witness ==
    /\ last_op.op = "claim_unclaimed_drops"
    /\ Len(last_op.calls) = 2
    /\ ~last_op.calls[1].ok
    /\ last_op.calls[1].instance_id \in ClaimableIn(all_campaigns) \cap ClaimableIn(campaigns)
    /\ last_op.calls[2].ok

\* C27: after a cleanup pass has claimed a drop successfully, no drop with
\* that drop instance id is can_claim in all_campaigns or campaigns, so that
\* the next pass makes no request for it.
C27_CleanupMarksClaimed ==
    [][ CleanupPass =>
          \A k \in 1 .. Len(last_op'.calls) :
              last_op'.calls[k].ok => last_op'.calls[k].instance_id \notin ClaimableIds' ]_vars

\* what the pass does guarantee: a drop claimed under its own name (it has no
\* benefit, or one that is named like the drop) is not can_claim afterwards
CleanupMarksByDropName ==
    [][ CleanupPass =>
          \A k \in 1 .. Len(last_op'.calls) :
              LET c == last_op'.calls[k]
                  named == \A d \in AllDrops(all_campaigns, campaigns) :
                               /\ can_claim(d)
                               /\ Unwrap(d.self_info).drop_instance_id = Some(c.instance_id)
                               => d.name = c.name
              IN  c.ok /\ named => c.instance_id \notin ClaimableIds' ]_vars

\* C28: at the end of every tick (the drained batch is handled), a set
\* mining_status implies that the Scheduler holds the handle of a loop; no
\* state has mining_status set with the handle empty and state Idle, where
\* autostart answers "Already watching" on every call.
C28_StatusImpliesHandle ==
    events = <<>> /\ IsSome(mining_status) => IsSome(watcher_rx)

\* the Scheduler holds the handle of a loop on game g
Mining(g) == \E id \in LoopIds : connected(id) /\ loops[id].game_name = g

\* C29: a loop whose every probe reports the drop as claimed already
\* eventually publishes CampaignComplete or is stopped by the Scheduler, and
\* the eligible game placed after it, which has a live stream, is eventually
\* mined.
C29_ClaimedDropHandsOver ==
    /\ \A id \in LoopIds :
           (connected(id) /\ loops[id].game_name = "G3")
               ~> (loops[id].completed \/ ~connected(id))
    /\ <>Mining("G1")

\* what the code does instead: the loop on G3 is started, and once started
\* it is never stopped and never returns, so that G1 is never mined
ClaimedLoopStarted == <>Mining("G3")

ClaimedLoopKept ==
    [][ \A id \in LoopIds :
          connected(id) => /\ watcher_rx' = watcher_rx
                           /\ running(loops'[id])
                           /\ loops'[id].game_name = "G3" ]_vars

LowerPriorityNeverMined == ~Mining("G1")

\* the drops a loop of SpecClaimed can observe as unclaimed or claim itself:
\* those that some drop check reports as unclaimed
ObservableUnclaimed ==
    {probe_name(r) : r \in {q \in ClaimedPlatform.probe : probe_valid(q) /\ ~q.is_claimed}}

\* C30: a loop publishes Claimed(name) only for a drop that it claimed itself
\* or that an earlier probe of it showed as unclaimed; a drop that was
\* claimed already at the loop's first valid probe and that the loop made no
\* claim call for never produces a Claimed event.
C30_ClaimedOnlyForOwnDrops ==
    [][ \A id \in LoopIds :
          StepOfLoop(id) =>
              \A i \in 1 .. Len(Sent) :
                  Sent[i].type = "Claimed" => Sent[i].name \in ObservableUnclaimed ]_vars

\* what the recovery branch does guarantee: the probe that is the loop's
\* first valid one publishes no Claimed event
FirstValidProbeNotReported ==
    [][ \A id \in LoopIds :
          StepOfLoop(id) /\ ~loops[id].has_mined_once => "Claimed" \notin SentTypes ]_vars

\* C31: whenever the Scheduler handles Claimed(name) emitted by a Mining Loop
\* on game G, the drop is marked claimed under game G in both lists, also
\* when mining_status is still empty (no Status from that loop was handled
\* before); the claim is never attributed to a placeholder game.
C31_ClaimedUnderLoopGame ==
    [][ Handled("Claimed") =>
            LET g == Head(events).game_name
                n == Head(events).name
            IN  /\ MarkedFrom(all_campaigns, all_campaigns', g, n)
                /\ MarkedFrom(campaigns, campaigns', g, n) ]_vars

\* the part of C31 the code keeps: with a mining_status on display the
\* handled Claimed event is marked under the game of that status, which is
\* the game of the loop that emitted it
ClaimedUnderStatusGame ==
    [][ Handled("Claimed") /\ IsSome(mining_status) =>
            LET g == Head(events).game_name
                n == Head(events).name
            IN  /\ Unwrap(mining_status).game_name = g
                /\ MarkedFrom(all_campaigns, all_campaigns', g, n)
                /\ MarkedFrom(campaigns, campaigns', g, n) ]_vars

\* a step that starts a Mining Loop: start_watching creates the handle
LoopStarted == watcher_rx = None /\ watcher_rx' # None

\* C32: transient_error_count is 0 whenever a new Mining Loop is started:
\* errors counted for an earlier loop that was stopped by pre-emption,
\* CampaignComplete or unsubscription do not count against the next loop.
C32_CountZeroAtLoopStart ==
    [][ LoopStarted => transient_error_count = 0 /\ transient_error_count' = 0 ]_vars

\* a call of bump_active_drop_second
BumpCall == last_op'.op = "bump_second"

\* list ds is list cs after one second was added to the first unclaimed drop
\* of every campaign whose game is in the priority list pg, and to no other
\* drop
BumpedForPriority(cs, ds, pg) ==
    /\ Len(ds) = Len(cs)
    /\ \A i \in 1 .. Len(cs) :
          /\ Len(ds[i].time_based_drops) = Len(cs[i].time_based_drops)
          /\ [ds[i] EXCEPT !.time_based_drops = <<>>] = [cs[i] EXCEPT !.time_based_drops = <<>>]
    /\ \A p \in DropPlaces(cs) :
          IF priority_position(pg, cs[p[1]].game) # 0 /\ p[2] = bumped_drop(cs[p[1]])
          THEN DropAt(ds, p) = bump_extra_second(DropAt(cs, p))
          ELSE DropAt(ds, p) = DropAt(cs, p)

\* C33: each 1-second bump increments extra-seconds on the first unclaimed
\* drop of every campaign whose game is in priority_games, whether or not a
\* Mining Loop is running, and writes to no other drop.
C33_BumpEveryPriorityCampaign ==
    [][ BumpCall => /\ BumpedForPriority(all_campaigns, all_campaigns', priority_games)
                    /\ BumpedForPriority(campaigns, campaigns', priority_games) ]_vars

\* the part of C33 the code keeps: a bump writes to the first unclaimed drop
\* of the campaigns of the game being mined or attempted, and to no other
\* drop; without such a game it writes nothing
BumpOnlyActiveGame ==
    [][ BumpCall =>
            LET a == active_game(mining_status, current_attempt_game)
                pg == IF IsSome(a) THEN a ELSE <<>>
            IN  /\ BumpedForPriority(all_campaigns, all_campaigns', pg)
                /\ BumpedForPriority(campaigns, campaigns', pg) ]_vars

\* every drop of campaign c is claimed, and there is one
fully_claimed(c) ==
    /\ Len(c.time_based_drops) > 0
    /\ \A j \in 1 .. Len(c.time_based_drops) : is_claimed(c.time_based_drops[j])

\* the step that ends a full refresh: the inventory fetch of the start-up
\* sequence with its subscribed details, or a background refresh
RefreshDone ==
    \/ state = "InventoryFetch" /\ state' # "InventoryFetch"
    \/ /\ state # "Idle" /\ state' = state /\ last_op'.op = "other"
       /\ <<all_campaigns, campaigns>>' # <<all_campaigns, campaigns>>

\* the ids of the drops of campaign c, in order
drop_ids(c) == [j \in 1 .. Len(c.time_based_drops) |-> c.time_based_drops[j].id]

\* C34: placeholder claimed drops are synthesized only for campaigns that are
\* already completed: after a full refresh no active subscribed campaign that
\* still has an unclaimed drop on the platform (every campaign answered by
\* RefreshPlatform has one) is fully claimed in all_campaigns, and a
\* subscribed campaign that the inventory lists with drops has exactly the
\* inventory's drops, by id, in all_campaigns.
C34_PlaceholdersOnlyWhenCompleted ==
    [][ RefreshDone =>
          \A i \in 1 .. Len(all_campaigns') :
              LET c == all_campaigns'[i]
              IN  priority_position(priority_games, c.game) # 0 =>
                    /\ is_active(c, now) => ~fully_claimed(c)
                    /\ \A j \in 1 .. Len(campaigns') :
                          /\ campaigns'[j].id = c.id
                          /\ Len(campaigns'[j].time_based_drops) > 0
                          => drop_ids(c) = drop_ids(campaigns'[j]) ]_vars

\* the part of C34 the code keeps: after a full refresh a subscribed campaign
\* that the inventory lists with drops has exactly the inventory's drops, by
\* id, in all_campaigns
InventoryDropsShown ==
    [][ RefreshDone =>
          \A i \in 1 .. Len(all_campaigns'), j \in 1 .. Len(campaigns') :
              /\ priority_position(priority_games, all_campaigns'[i].game) # 0
              /\ campaigns'[j].id = all_campaigns'[i].id
              /\ Len(campaigns'[j].time_based_drops) > 0
              => drop_ids(all_campaigns'[i]) = drop_ids(campaigns'[j]) ]_vars


\* the step is a token request of login task i
TokenRequestOf(i) ==
    /\ last_op'.op = "poll_for_token"
    /\ login_tasks[i].pc = "poll"
    /\ \/ login_tasks' = without(login_tasks, i)
       \/ /\ Len(login_tasks') = Len(login_tasks)
          /\ login_tasks'[i] # login_tasks[i]
          /\ \A k \in 1 .. Len(login_tasks) : k # i => login_tasks'[k] = login_tasks[k]

\* login task i is gone and its last word was a Failed message
FailedAt(i) ==
    /\ login_tasks' = without(login_tasks, i)
    /\ Len(login_rx') = Len(login_rx) + 1
    /\ SubSeq(login_rx', 1, Len(login_rx)) = login_rx
    /\ login_rx'[Len(login_rx')].type = "Failed"

\* the queued login messages hold one of type t
Queued(t) == \E k \in 1 .. Len(login_rx) : login_rx[k].type = t

\* the tick handles the queued login messages
LoginMessagesHandled == last_op'.op = "login_messages" /\ login_rx # <<>> /\ login_rx' = <<>>

PollsWithinBound == \A i \in 1 .. Len(login_tasks) : login_tasks[i].requests <= MaxPolls


\* C38: at most one login task is running at any time; a login key pressed
\* while an earlier attempt has not finished, also before it has delivered
\* its user code, spawns no second task.
C38_OneLoginTask == Len(login_tasks) <= 1

\* lemma: with a user code on display the login key spawns no task
NoLoginTaskWhilePending ==
    [][is_login_pending => Len(login_tasks') <= Len(login_tasks)]_vars


\* init_cookies has returned Ok on the client c (none: no client)
Initialized(c) == IsSome(c) /\ Unwrap(c).cookies_initialized

\* C36: no query is sent through a platform client before init_cookies has
\* succeeded on that client: a Mining Loop is given an initialized client,
\* and the client a drop check sends its query through is initialized.
C36_QueriesAfterInitCookies ==
    [][/\ LoopStarted => Initialized(gql)
       /\ \A id \in LoopIds :
              ProbeStepOf(id) => /\ Initialized(loops[id].gql)
                                 /\ current_drop_client(Unwrap(loops[id].gql)).cookies_initialized
      ]_vars

\* lemma: on an initialized client init_cookies sends no request and leaves
\* the client as it is, whatever the cookie jar and the home page hold
InitCookiesIdempotent ==
    Initialized(gql) =>
        \A src \in CookieSources :
            init_cookies(Unwrap(gql), src) = [ok |-> TRUE, gql |-> Unwrap(gql), request |-> FALSE]

\* lemma: an initialized client keeps its ids until logout or a new login
InitializedClientKept ==
    [][Initialized(gql) /\ last_op'.op \notin {"logout", "login_messages"} => gql' = gql]_vars


\* the step is a logout
LoggedOutNow == last_op'.op = "logout" /\ is_logged_in /\ ~is_logged_in'

\* C37: after logout the Scheduler holds no handle of a Mining Loop,
\* mining_status is empty, the state is not Watching, and no Mining Loop is
\* connected to the Scheduler any more.
C37_LogoutStopsWatch ==
    [][LoggedOutNow =>
           /\ watcher_rx' = None
           /\ mining_status' = None
           /\ state' # "Watching"
           /\ \A id \in LoopIds : ~connected(id)']_vars

\* lemma: logout leaves no session, no client, no campaign data and no
\* watched channel
LogoutClearsSession ==
    [][LoggedOutNow =>
           /\ gql' = None
           /\ all_campaigns' = <<>> /\ campaigns' = <<>>
           /\ watching_channel' = None
           /\ auth_json' = None]_vars


\* the loop l has seen a drop context: in an earlier iteration
\* (has_mined_once) or in this one (drop_found_in_cycle)
SeenContext(l) == l.has_mined_once \/ l.drop_found_in_cycle

\* C39: a Mining Loop publishes FatalError only while has_mined_once is
\* false, and never after it has published a Status or a Claimed event: the
\* step that publishes Status or Claimed leaves the loop with a drop context
\* seen, a loop that has seen one keeps that for as long as it runs, whatever
\* the later probes return, and a step that publishes FatalError is a step of
\* a loop that has seen none and publishes neither Status nor Claimed.
C39_FatalErrorOnlyBeforeMining ==
    [][\A id \in LoopIds :
           StepOfLoop(id) =>
               /\ SentTypes \cap {"Status", "Claimed"} # {} /\ running(loops'[id])
                      => SeenContext(loops'[id])
               /\ SeenContext(loops[id]) /\ running(loops'[id]) => SeenContext(loops'[id])
               /\ "FatalError" \in SentTypes =>
                      /\ ~loops[id].has_mined_once
                      /\ ~SeenContext(loops[id])
                      /\ SentTypes = {"FatalError"}]_vars

\* a loop that has published a Claimed event and has mined went through an
\* iteration without a drop context, and goes on
C39_Witness ==
    \E id \in LoopIds :
        /\ running(loops[id])
        /\ loops[id].claimed_sent # {}
        /\ loops[id].has_mined_once
        /\ loops[id].consecutive_loop_failures >= 1


\* the Scheduler's data model
DataModel ==
    <<all_campaigns, campaigns, mining_status, has_live_stream, transient_error_count,
      failed_game_attempts, state, watching_channel, current_attempt_game>>

\* C40: what a Mining Loop tries to publish after the Scheduler has stopped
\* it is never applied, also when a new loop has been started: the step of a
\* loop the Scheduler does not hold adds nothing to the stream the Scheduler
\* drains and changes nothing of the data model, and when the Scheduler takes
\* or drops a handle the stream it drains starts empty.
C40_StoppedLoopNeverApplied ==
    [][/\ \A id \in LoopIds :
              StepOfLoop(id) /\ watcher_rx # Some(id) =>
                  /\ channel' = channel
                  /\ events' = events
                  /\ DataModel' = DataModel
       /\ watcher_rx' # watcher_rx => channel' = <<>>]_vars

\* a loop the Scheduler has stopped is still running, has gone on for an
\* iteration, and the Scheduler holds a new loop
C40_Witness ==
    \E id \in LoopIds, new \in LoopIds :
        /\ id # new
        /\ running(loops[id])
        /\ loops[id].stopped_iters >= 1
        /\ watcher_rx = Some(new)
        /\ running(loops[new])

====
